---------------------------- MODULE Spec2Model ----------------------------
(***************************************************************************)
(* Lot lifecycle and material-balance engine of the meat ERP core           *)
(* (src/apps/api/meat_erp_core and the v12 tree holding the modules that    *)
(* main.py imports from it).                                                *)
(*                                                                          *)
(* Quantities are integers counting grams: every request quantity is a      *)
(* condecimal with 3 decimal places and every stored quantity a             *)
(* Numeric(12,3), so 1 unit = 0.001 kg.  The code validates with binary     *)
(* floats; a float comparison of a difference against 0.001 is decided by   *)
(* the exact difference except when the exact difference is 0.001, where    *)
(* the float result depends on the magnitudes of the operands               *)
(* (10.001 - 10.0 > 0.001 is False, 180.0 - 179.999 > 0.001 is True).  The  *)
(* model draws that case from BOOLEAN (the parameter fp of the commands).   *)
(*                                                                          *)
(* Timestamps are integers counting days; NULL is the SQL NULL.             *)
(* Each command is one database transaction and is one action.              *)
(***************************************************************************)
EXTENDS Integers, Sequences, FiniteSets, TLC

\* ------------------------------------------------------------------ bounds
MaxLots == 4
MaxQty == 2
MaxTxn == 4
MaxTime == 1
MaxProcs == 2
MaxCalls == 2
MaxQueued == 3
MaxSaleTxn == 7
MaxSaleLots == 2
MaxSaleQty == 3

\* ------------------------------------------------------- program constants
TOLERANCE == 1

NULL == 0 - 1

Times == 0..MaxTime
Qtys == 1..MaxQty

LotStates == {"received", "aging", "released", "sold", "disposed", "quarantined"}

Prefixes == {"REC", "BD", "MIX", "RW", "RM", "QA", "QF"}

\* Reference data: the loss_types master table (code -> active).
LossCodes == {"trim", "old"}
LossTypeActive(code) == code = "trim"

\* Reference data: process profiles.  1 is the breakdown profile of the
\* seed (no mixing); 2 allows mixing and carries default_aging_days.
ProfileIds == {1, 2}
ProcessProfile(id) ==
    IF id = 1 THEN [allows_lot_mixing |-> FALSE, default_aging_days |-> NULL]
              ELSE [allows_lot_mixing |-> TRUE, default_aging_days |-> 1]

\* Concurrent sessions and the counter rows they contend for.
Procs == 1..MaxProcs

CounterKeys == {<<0, "REC">>, <<0, "BD">>}

IdleCommand ==
    [pc |-> "idle", kind |-> "none", req |-> <<>>, todo |-> <<>>, held |-> {},
     status |-> "none", detail |-> ""]

NoBase == [none |-> TRUE]

IdleSession ==
    [pc |-> "idle", key |-> <<0, "REC">>, last_seq |-> NULL,
     writes |-> [k \in CounterKeys |-> NULL], codes |-> <<>>, new_lots |-> <<>>]

VARIABLES
    lots,                 \* lots table: Seq of rows, row id = index
    inventory_movements,  \* Seq of [lot_id, move_type, quantity_kg]
    lot_events,           \* Seq of [lot_id, event_type, txid]
    production_orders,    \* Seq of [process_type]
    production_inputs,    \* Seq of [production_order_id, lot_id, quantity_kg]
    production_outputs,   \* Seq of [production_order_id, output_lot_id, quantity_kg]
    breakdown_losses,     \* Seq of [production_order_id, loss_type, quantity_kg]
    qa_checks,            \* Seq of [lot_id, mode, passed]
    reservations,         \* Seq of [lot_id, quantity_kg]
    sales,                \* number of sale headers
    sale_lines,           \* Seq of [sale_id, lot_id, quantity_kg]
    lot_code_counters,    \* [<<code_date, prefix>> -> last_seq or NULL (no row)]
    txid,                 \* id of the last committed transaction
    now,                  \* the server clock, datetime.now()
    result,               \* response of the last command
    sess,                 \* concurrent sessions: the open transaction of each
    locks,                \* row locks on lot_code_counters: key -> session or 0
    issued,               \* per key, the sequences of committed transactions,
                          \* in commit order
    cmd,                  \* concurrent sale / mix requests: the open
                          \* transaction of each session
    base,                 \* the tables when the first of them began
    offline_queue,        \* Seq of offline_queue rows
    offline_conflicts,    \* Seq of offline_conflicts rows
    oq_seq                \* last value of the offline_queue id sequence

dbvars == <<lots, inventory_movements, lot_events, production_orders,
            production_inputs, production_outputs, breakdown_losses, qa_checks,
            reservations, sales, sale_lines, lot_code_counters>>

cmdvars == <<cmd, base>>

concvars == <<sess, locks, issued, cmdvars>>

offvars == <<offline_queue, offline_conflicts, oq_seq>>

vars == <<dbvars, txid, now, result, concvars, offvars>>

\* The database as one value, so that a command is a function of it.
DB == [lots |-> lots, inventory_movements |-> inventory_movements,
       lot_events |-> lot_events, production_orders |-> production_orders,
       production_inputs |-> production_inputs,
       production_outputs |-> production_outputs,
       breakdown_losses |-> breakdown_losses, qa_checks |-> qa_checks,
       reservations |-> reservations, sales |-> sales,
       sale_lines |-> sale_lines, lot_code_counters |-> lot_code_counters]

\* ----------------------------------------------------------------- helpers
RECURSIVE SumSeq(_)
SumSeq(s) == IF s = <<>> THEN 0 ELSE Head(s) + SumSeq(Tail(s))

RECURSIVE SumQty(_)
SumQty(rows) == IF rows = <<>> THEN 0 ELSE Head(rows).quantity_kg + SumQty(Tail(rows))

Abs(x) == IF x < 0 THEN 0 - x ELSE x
Max(a, b) == IF a > b THEN a ELSE b

\* a comparison against 0.002 instead of 0.001
GtTolLoose(x, fp) == x > 2 * TOLERANCE

\* Float comparison  x > 0.001  of a difference x whose exact value is a
\* whole number of grams; fp is the float outcome when x is exactly 0.001.
GtTol(x, fp) == x > TOLERANCE \/ (x = TOLERANCE /\ fp)

\* --------------------------------------------------------- lot_codes.py
\* INSERT .. ON CONFLICT DO NOTHING; SELECT .. FOR UPDATE; UPDATE last_seq.
\* The code is "{prefix}-{YYYYMMDD}-{seq:04d}": :04d pads and never truncates
\* and no prefix holds a '-', so the string is one-to-one with the triple.
RECURSIVE Digits(_)
Digits(n) == IF n < 10 THEN <<n>> ELSE Append(Digits(n \div 10), n % 10)

\* "{:04d}": zero-padded to four digits, longer numbers kept whole
Pad04d(n) ==
    LET ds == Digits(n) IN
    IF Len(ds) >= 4 THEN ds ELSE [i \in 1..(4 - Len(ds)) |-> 0] \o ds

LotCodeFormat(prefix, d, seq) == <<prefix, "-", d, "-">> \o Pad04d(seq)

next_lot_code(d, prefix, at) ==
    LET key == <<at, prefix>>
        last_seq == IF d.lot_code_counters[key] = NULL THEN 0
                    ELSE d.lot_code_counters[key]
        next_seq == last_seq + 1
    IN [code |-> LotCodeFormat(prefix, at, next_seq),
        db |-> [d EXCEPT !.lot_code_counters[key] = next_seq]]

\* ------------------------------------------------------ availability.py
InMoveTypes == {"receiving", "breakdown_output", "mix_output", "adjustment_in"}
OutMoveTypes == {"sale", "breakdown_input", "mix_input", "adjustment_out"}
LossMoveType(code) == IF code = "trim" THEN "breakdown_loss:trim" ELSE "breakdown_loss:old"
\* move_type LIKE 'breakdown_loss:%'
LikeBreakdownLoss(mt) == \E c \in LossCodes : mt = LossMoveType(c)

reserved_kg(d, lot_id) ==
    LET P(r) == r.lot_id = lot_id IN SumQty(SelectSeq(d.reservations, P))

\* SUM(in_case - out_case - loss_case) over the lot's movements
on_hand_kg(d, lot_id) ==
    LET I(m) == m.lot_id = lot_id /\ m.move_type \in InMoveTypes
        O(m) == m.lot_id = lot_id /\ m.move_type \in OutMoveTypes
        L(m) == m.lot_id = lot_id /\ LikeBreakdownLoss(m.move_type)
    IN SumQty(SelectSeq(d.inventory_movements, I))
       - SumQty(SelectSeq(d.inventory_movements, O))
       - SumQty(SelectSeq(d.inventory_movements, L))

available_kg(d, lot_id) == Max(0, on_hand_kg(d, lot_id) - reserved_kg(d, lot_id))

available_for_sale_kg(d, lot_id, clock) ==
    IF lot_id \notin DOMAIN d.lots THEN 0
    ELSE IF d.lots[lot_id].state # "released" THEN 0
    ELSE IF d.lots[lot_id].ready_at # NULL /\ clock < d.lots[lot_id].ready_at THEN 0
    ELSE available_kg(d, lot_id)

\* ------------------------------------------- 0002_lot_audit_trigger.py
LifecycleChanged(old, new) ==
    \/ new.state # old.state
    \/ new.released_at # old.released_at
    \/ new.aging_started_at # old.aging_started_at
    \/ new.ready_at # old.ready_at
    \/ new.expires_at # old.expires_at

\* the trigger dropped: every UPDATE goes through
AuditOff(d, id, new, tx) == TRUE

\* a trigger that asks for the event whether or not a column changed
AuditAlways(d, id, new, tx) ==
    \E i \in DOMAIN d.lot_events :
        d.lot_events[i].lot_id = id /\ d.lot_events[i].txid = tx

\* TRUE when the trigger lets the UPDATE of lot id to row `new` through in
\* transaction tx, given the rows written so far (d).
enforce_lot_state_audit(d, id, new, tx) ==
    LifecycleChanged(d.lots[id], new) =>
        \E i \in DOMAIN d.lot_events :
            d.lot_events[i].lot_id = id /\ d.lot_events[i].txid = tx

\* ------------------------------------------------------- command results
Ok(d, refs) == [status |-> "ok", detail |-> "", db |-> d, refs |-> refs]
Rejected(d, msg) == [status |-> "rejected", detail |-> msg, db |-> d, refs |-> <<>>]
Aborted(d, msg) == [status |-> "aborted", detail |-> msg, db |-> d, refs |-> <<>>]

\* an event that is not stamped with the transaction that writes it
AddEventUnstamped(d, lot_id, event_type, tx) ==
    [d EXCEPT !.lot_events = Append(@, [lot_id |-> lot_id, event_type |-> event_type, txid |-> 0])]

AddEvent(d, lot_id, event_type, tx) ==
    [d EXCEPT !.lot_events = Append(@, [lot_id |-> lot_id, event_type |-> event_type, txid |-> tx])]

AddMovement(d, lot_id, move_type, qty) ==
    [d EXCEPT !.inventory_movements =
        Append(@, [lot_id |-> lot_id, move_type |-> move_type, quantity_kg |-> qty])]

AddLot(d, row) == [d EXCEPT !.lots = Append(@, row)]

NewLot(code, state, aging_started_at, ready_at, released_at, expires_at) ==
    [lot_code |-> code, state |-> state, aging_started_at |-> aging_started_at,
     ready_at |-> ready_at, released_at |-> released_at, expires_at |-> expires_at]

\* --------------------------------------------------------- receiving.py
create_lot_txn(d, req, tx) ==
    LET received_at == req.received_at
        c == next_lot_code(d, "REC", received_at)
        d1 == AddLot(c.db, NewLot(c.code, "received", NULL, NULL, NULL, NULL))
        id == Len(d1.lots)
        d2 == AddMovement(d1, id, "receiving", req.quantity_kg)
        d3 == AddEvent(d2, id, "received", tx)
    IN Ok(d3, [lot_id |-> id])


\* --------------------------------------------------------- aging_api.py
UpdateLot(d, id, new) == [d EXCEPT !.lots[id] = new]

start_aging(d, req, tx) ==
    IF req.lot_id \notin DOMAIN d.lots THEN Rejected(d, "Invalid lot_id")
    ELSE IF d.lots[req.lot_id].state = "quarantined"
        THEN Rejected(d, "Cannot age a quarantined lot")
    ELSE IF ProcessProfile(req.process_profile_id).default_aging_days = NULL
        THEN Rejected(d, "Process profile missing default_aging_days")
    ELSE
        LET started_at == req.started_at
            ready_at == started_at + ProcessProfile(req.process_profile_id).default_aging_days
            d1 == AddEvent(d, req.lot_id, "aging_started", tx)
            new == [d1.lots[req.lot_id] EXCEPT !.state = "aging",
                        !.aging_started_at = started_at, !.ready_at = ready_at]
        IN IF enforce_lot_state_audit(d1, req.lot_id, new, tx)
           THEN Ok(UpdateLot(d1, req.lot_id, new), [lot_id |-> req.lot_id])
           ELSE Aborted(d, "23514")

\* release without the test of ready_at against the release time
ReleaseAnyTime(d, req, tx) ==
    IF req.lot_id \notin DOMAIN d.lots THEN Rejected(d, "Invalid lot_id")
    ELSE IF d.lots[req.lot_id].state = "quarantined"
        THEN Rejected(d, "Cannot release a quarantined lot")
    ELSE IF d.lots[req.lot_id].state # "aging"
        THEN Rejected(d, "Lot is not in aging state")
    ELSE
        LET d1 == AddEvent(d, req.lot_id, "released", tx)
            new == [d1.lots[req.lot_id] EXCEPT !.state = "released",
                        !.released_at = req.released_at]
        IN Ok(UpdateLot(d1, req.lot_id, new), [lot_id |-> req.lot_id])

release_aging(d, req, tx) ==
    IF req.lot_id \notin DOMAIN d.lots THEN Rejected(d, "Invalid lot_id")
    ELSE IF d.lots[req.lot_id].state = "quarantined"
        THEN Rejected(d, "Cannot release a quarantined lot")
    ELSE IF d.lots[req.lot_id].state # "aging"
        THEN Rejected(d, "Lot is not in aging state")
    ELSE IF d.lots[req.lot_id].ready_at = NULL
        THEN Rejected(d, "Lot has no ready_at")
    ELSE IF d.lots[req.lot_id].ready_at > req.released_at
        THEN Rejected(d, "Lot is not ready to release yet")
    ELSE
        LET d1 == AddEvent(d, req.lot_id, "released", tx)
            new == [d1.lots[req.lot_id] EXCEPT !.state = "released",
                        !.released_at = req.released_at]
        IN IF enforce_lot_state_audit(d1, req.lot_id, new, tx)
           THEN Ok(UpdateLot(d1, req.lot_id, new), [lot_id |-> req.lot_id])
           ELSE Aborted(d, "23514")

\* --------------------------------------------------------- breakdown.py
AddOrder(d, process_type) ==
    [d EXCEPT !.production_orders = Append(@, [process_type |-> process_type])]

AddInput(d, po, lot_id, qty) ==
    [d EXCEPT !.production_inputs =
        Append(@, [production_order_id |-> po, lot_id |-> lot_id, quantity_kg |-> qty])]

\* an output row that lists the first input lot of the order again
AddOutputOfInput(d, po, lot_id, qty) ==
    [d EXCEPT !.production_outputs =
        Append(@, [production_order_id |-> po,
                   output_lot_id |->
                       d.production_inputs[CHOOSE i \in DOMAIN d.production_inputs :
                           d.production_inputs[i].production_order_id = po].lot_id,
                   quantity_kg |-> qty])]

AddOutput(d, po, lot_id, qty) ==
    [d EXCEPT !.production_outputs =
        Append(@, [production_order_id |-> po, output_lot_id |-> lot_id, quantity_kg |-> qty])]

AddLoss(d, po, loss_type, qty) ==
    [d EXCEPT !.breakdown_losses =
        Append(@, [production_order_id |-> po, loss_type |-> loss_type, quantity_kg |-> qty])]

\* for o in req.outputs: BD code, output lot, ProductionOutput, event, movement
RECURSIVE BreakdownOutputs(_, _, _, _, _, _)
BreakdownOutputs(d, outs, input_lot, po, at, tx) ==
    IF outs = <<>> THEN d
    ELSE
        LET c == next_lot_code(d, "BD", at)
            d1 == AddLot(c.db, NewLot(c.code, input_lot.state, NULL, input_lot.ready_at,
                                      input_lot.released_at, input_lot.expires_at))
            id == Len(d1.lots)
            d2 == AddOutput(d1, po, id, Head(outs))
            d3 == AddEvent(d2, id, "created_from_breakdown", tx)
            d4 == AddMovement(d3, id, "breakdown_output", Head(outs))
        IN BreakdownOutputs(d4, Tail(outs), input_lot, po, at, tx)

\* for loss in req.losses: BreakdownLoss, event and movement on the input lot
RECURSIVE BreakdownLosses(_, _, _, _, _)
BreakdownLosses(d, losses, input_lot_id, po, tx) ==
    IF losses = <<>> THEN d
    ELSE
        LET l == Head(losses)
            d1 == AddLoss(d, po, l.loss_type, l.quantity_kg)
            d2 == AddEvent(d1, input_lot_id, LossMoveType(l.loss_type), tx)
            d3 == AddMovement(d2, input_lot_id, LossMoveType(l.loss_type), l.quantity_kg)
        IN BreakdownLosses(d3, Tail(losses), input_lot_id, po, tx)

ReceivedQty(d, lot_id) ==
    LET P(m) == m.lot_id = lot_id /\ m.move_type = "receiving"
    IN SumQty(SelectSeq(d.inventory_movements, P))

\* fp[1]: received-weight bound, fp[2]: weight mismatch, fp[3]: availability
breakdown_txn(d, req, at, tx, fp) ==
    IF req.input_lot_id \notin DOMAIN d.lots THEN Rejected(d, "Invalid input_lot_id")
    ELSE
    LET input_lot == d.lots[req.input_lot_id]
        input_qty == req.input_quantity_kg
        total_out == SumSeq(req.outputs) + SumQty(req.losses)
        available == available_kg(d, req.input_lot_id)
    IN
    IF input_lot.state = "quarantined"
        THEN Rejected(d, "Cannot breakdown a quarantined lot")
    ELSE IF input_lot.state \in {"disposed", "sold"}
        THEN Rejected(d, "Lot is not eligible for breakdown")
    ELSE IF GtTol(input_qty - ReceivedQty(d, req.input_lot_id), fp[1])
        THEN Rejected(d, "Input weight cannot exceed received weight")
    ELSE IF \E i \in DOMAIN req.losses : ~LossTypeActive(req.losses[i].loss_type)
        THEN Rejected(d, "One or more loss_type is invalid or inactive")
    ELSE IF GtTol(Abs(total_out - input_qty), fp[2])
        THEN Rejected(d, "Weight mismatch")
    ELSE IF GtTol(input_qty - available, fp[3])
        THEN Rejected(d, "Insufficient available quantity on input lot")
    ELSE IF GtTol(Abs(input_qty - available), fp[3])
        THEN Rejected(d, "Breakdown must consume full available quantity")
    ELSE
        LET d1 == AddOrder(d, "breakdown")
            po == Len(d1.production_orders)
            d2 == AddInput(d1, po, req.input_lot_id, input_qty)
            d3 == AddEvent(d2, req.input_lot_id, "breakdown", tx)
            d4 == AddMovement(d3, req.input_lot_id, "breakdown_input", input_qty)
            d5 == BreakdownOutputs(d4, req.outputs, input_lot, po, at, tx)
            d6 == BreakdownLosses(d5, req.losses, req.input_lot_id, po, tx)
            new == [d6.lots[req.input_lot_id] EXCEPT !.state = "disposed"]
            d7 == UpdateLot(d6, req.input_lot_id, new)
            d8 == AddEvent(d7, req.input_lot_id, "disposed", tx)
        IN IF enforce_lot_state_audit(d6, req.input_lot_id, new, tx)
           THEN Ok(d8, [production_order_id |-> po])
           ELSE Aborted(d, "23514")

\* ---------------------------------------------------------- mixing_api.py
\* by_lot: quantities summed per lot, keys in first-appearance order
RECURSIVE ByLotKeys(_, _)
ByLotKeys(lines, seen) ==
    IF lines = <<>> THEN <<>>
    ELSE IF Head(lines).lot_id \in seen THEN ByLotKeys(Tail(lines), seen)
    ELSE <<Head(lines).lot_id>> \o ByLotKeys(Tail(lines), seen \cup {Head(lines).lot_id})

ByLotQty(lines, lot_id) ==
    LET P(l) == l.lot_id = lot_id IN SumQty(SelectSeq(lines, P))

\* the input gate without the test that the lot is released
MixGateAnyState(d, lot_id, qty, performed_at, fp) ==
    LET lot == d.lots[lot_id] IN
    IF lot.state = "quarantined" THEN "Input lot is quarantined"
    ELSE IF lot.ready_at # NULL /\ performed_at < lot.ready_at THEN "Input lot is not ready yet"
    ELSE IF GtTol(qty - available_kg(d, lot_id), fp) THEN "Input lot: insufficient available"
    ELSE ""

MixGate(d, lot_id, qty, performed_at, fp) ==
    LET lot == d.lots[lot_id] IN
    IF lot.state = "quarantined" THEN "Input lot is quarantined"
    ELSE IF lot.state # "released" THEN "Input lot must be released"
    ELSE IF lot.ready_at # NULL /\ performed_at < lot.ready_at THEN "Input lot is not ready yet"
    ELSE IF GtTol(qty - available_kg(d, lot_id), fp) THEN "Input lot: insufficient available"
    ELSE ""

\* first failing gate in by_lot order, "" when every input passes
RECURSIVE MixGates(_, _, _, _, _)
MixGates(d, keys, lines, performed_at, fp) ==
    IF keys = <<>> THEN ""
    ELSE LET g == MixGate(d, Head(keys), ByLotQty(lines, Head(keys)), performed_at, fp)
         IN IF g # "" THEN g ELSE MixGates(d, Tail(keys), lines, performed_at, fp)

RECURSIVE MixInputs(_, _, _, _, _)
MixInputs(d, keys, lines, po, tx) ==
    IF keys = <<>> THEN d
    ELSE
        LET qty == ByLotQty(lines, Head(keys))
            d1 == AddInput(d, po, Head(keys), qty)
            d2 == AddEvent(d1, Head(keys), "mix_input", tx)
            d3 == AddMovement(d2, Head(keys), "mix_input", qty)
        IN MixInputs(d3, Tail(keys), lines, po, tx)

\* the part of mix after the gates: the order, its inputs, the MIX lot
MixWrites(d, req, tx) ==
    LET performed_at == req.performed_at
        c == next_lot_code(d, "MIX", performed_at)
        keys == ByLotKeys(req.inputs, {})
        d1 == AddOrder(c.db, "mix")
        po == Len(d1.production_orders)
        d2 == MixInputs(d1, keys, req.inputs, po, tx)
        d3 == AddLot(d2, NewLot(c.code, "released", NULL, performed_at, performed_at, NULL))
        id == Len(d3.lots)
        total_out_qty == SumQty(req.inputs)
        d4 == AddOutput(d3, po, id, total_out_qty)
        d5 == AddEvent(d4, id, "mix_output", tx)
        d6 == AddMovement(d5, id, "mix_output", total_out_qty)
    IN Ok(d6, [production_order_id |-> po])

mix(d, req, tx, fp) ==
    IF ~ProcessProfile(req.process_profile_id).allows_lot_mixing
        THEN Rejected(d, "This process profile does not allow lot mixing")
    ELSE
    LET performed_at == req.performed_at
        c == next_lot_code(d, "MIX", performed_at)
        keys == ByLotKeys(req.inputs, {})
    IN
    IF \E i \in DOMAIN d.lots : d.lots[i].lot_code = c.code
        THEN Rejected(d, "output_lot_code already exists")
    ELSE IF \E i \in DOMAIN keys : keys[i] \notin DOMAIN d.lots
        THEN Rejected(d, "One or more input lot_id invalid")
    ELSE IF MixGates(d, keys, req.inputs, performed_at, fp) # ""
        THEN Rejected(d, MixGates(d, keys, req.inputs, performed_at, fp))
    ELSE MixWrites(d, req, tx)

\* ---------------------------------------------------------- rework_api.py
RECURSIVE ReworkLosses(_, _, _, _, _)
ReworkLosses(d, losses, input_lot_id, po, tx) ==
    IF losses = <<>> THEN d
    ELSE
        LET l == Head(losses)
            d1 == AddLoss(d, po, l.loss_type, l.quantity_kg)
            d2 == AddEvent(d1, input_lot_id, "rework_loss", tx)
        IN ReworkLosses(d2, Tail(losses), input_lot_id, po, tx)

\* fp[1]: rework_qty > avail + 0.001, fp[2]: loss_total > rework_qty + 0.001,
\* fp[3]: remainder_qty > 0.001
create_rework(d, req, at, tx, fp) ==
    IF req.input_lot_id \notin DOMAIN d.lots THEN Rejected(d, "Input lot not found")
    ELSE
    LET input_lot == d.lots[req.input_lot_id]
        avail_qty == available_kg(d, req.input_lot_id)
        rework_qty == req.rework_quantity_kg
        remainder_qty == Max(0, avail_qty - rework_qty)
        loss_total == SumQty(req.losses)
        reworked_out_qty == Max(0, rework_qty - loss_total)
    IN
    IF input_lot.state \in {"quarantined", "disposed", "sold"}
        THEN Rejected(d, "Lot not eligible for rework")
    ELSE IF GtTol(rework_qty - avail_qty, fp[1])
        THEN Rejected(d, "Rework quantity cannot exceed available quantity")
    ELSE IF rework_qty <= 0
        THEN Rejected(d, "Rework quantity must be > 0")
    ELSE IF GtTol(loss_total - rework_qty, fp[2])
        THEN Rejected(d, "Losses cannot exceed rework quantity")
    \* CHECK (quantity_kg > 0) on inventory_movements: rework_input, rework_output
    ELSE IF avail_qty <= 0 \/ reworked_out_qty <= 0
        THEN Aborted(d, "ck_move_qty_positive")
    ELSE
        LET d1 == AddOrder(d, "rework")
            po == Len(d1.production_orders)
            d2 == AddInput(d1, po, req.input_lot_id, avail_qty)
            d3 == AddMovement(d2, req.input_lot_id, "rework_input", avail_qty)
            d4 == AddEvent(d3, req.input_lot_id, "rework_consumed", tx)
            c == next_lot_code(d4, "RW", at)
            d5 == AddLot(c.db, NewLot(c.code, input_lot.state, input_lot.aging_started_at,
                                      input_lot.ready_at, input_lot.released_at,
                                      input_lot.expires_at))
            out_id == Len(d5.lots)
            d6 == AddOutput(d5, po, out_id, reworked_out_qty)
            d7 == AddMovement(d6, out_id, "rework_output", reworked_out_qty)
            d8 == AddEvent(d7, out_id, "rework_output", tx)
            rm == next_lot_code(d8, "RM", at)
            d9 == IF GtTol(remainder_qty, fp[3])
                  THEN LET e1 == AddLot(rm.db, NewLot(rm.code, input_lot.state,
                                            input_lot.aging_started_at, input_lot.ready_at,
                                            input_lot.released_at, input_lot.expires_at))
                           rm_id == Len(e1.lots)
                           e2 == AddOutput(e1, po, rm_id, remainder_qty)
                           e3 == AddMovement(e2, rm_id, "rework_remainder", remainder_qty)
                       IN AddEvent(e3, rm_id, "rework_remainder", tx)
                  ELSE d8
            d10 == ReworkLosses(d9, req.losses, req.input_lot_id, po, tx)
            new == [d10.lots[req.input_lot_id] EXCEPT !.state = "disposed"]
            d11 == UpdateLot(d10, req.input_lot_id, new)
            d12 == AddEvent(d11, req.input_lot_id, "disposed", tx)
        IN IF enforce_lot_state_audit(d10, req.input_lot_id, new, tx)
           THEN Ok(d12, [production_order_id |-> po])
           ELSE Aborted(d, "23514")

\* -------------------------------------------------------------- qa_api.py
AddQACheck(d, lot_id, mode, passed) ==
    [d EXCEPT !.qa_checks = Append(@, [lot_id |-> lot_id, mode |-> mode, passed |-> passed])]

\* mode = "full"
qa_check_full(d, req, tx) ==
    IF req.lot_id \notin DOMAIN d.lots THEN Rejected(d, "Invalid lot_id")
    ELSE
        LET d1 == AddQACheck(d, req.lot_id, "full", req.passed) IN
        IF ~req.passed /\ d.lots[req.lot_id].state # "quarantined"
        THEN LET d2 == AddEvent(d1, req.lot_id, "quarantined", tx)
                 new == [d2.lots[req.lot_id] EXCEPT !.state = "quarantined"]
             IN IF enforce_lot_state_audit(d2, req.lot_id, new, tx)
                THEN Ok(UpdateLot(d2, req.lot_id, new), [lot_id |-> req.lot_id])
                ELSE Aborted(d, "23514")
        ELSE Ok(d1, [lot_id |-> req.lot_id])

\* copy_state_fields + the QA / QF output lot with its order row, event, movement
QASplitOutput(d, lot, prefix, state, move_type, qty, po, at, tx) ==
    LET c == next_lot_code(d, prefix, at)
        d1 == AddLot(c.db, NewLot(c.code, state, lot.aging_started_at, lot.ready_at,
                                  lot.released_at, lot.expires_at))
        id == Len(d1.lots)
        d2 == AddOutput(d1, po, id, qty)
        d3 == AddEvent(d2, id, move_type, tx)
    IN AddMovement(d3, id, move_type, qty)

\* mode = "partial"; pass_qty_kg / fail_qty_kg are 0 when not given
qa_check_partial(d, req, at, tx, fp) ==
    IF req.lot_id \notin DOMAIN d.lots THEN Rejected(d, "Invalid lot_id")
    ELSE
    LET lot == d.lots[req.lot_id]
        pass_qty == req.pass_qty_kg
        fail_qty == req.fail_qty_kg
        avail == available_kg(d, req.lot_id)
        total == pass_qty + fail_qty
    IN
    IF pass_qty <= 0 /\ fail_qty <= 0
        THEN Rejected(d, "Partial mode requires pass_qty_kg and/or fail_qty_kg")
    ELSE IF GtTol(Abs(total - avail), fp)
        THEN Rejected(d, "Partial QA must split full available qty")
    ELSE
        LET d1 == AddQACheck(d, req.lot_id, "partial", fail_qty <= 0)
            d2 == AddOrder(d1, "qa_split")
            po == Len(d2.production_orders)
            d3 == AddInput(d2, po, req.lot_id, total)
            d4 == AddEvent(d3, req.lot_id, "qa_split", tx)
            d5 == AddMovement(d4, req.lot_id, "qa_split_input", total)
            d6 == IF pass_qty > 0
                  THEN QASplitOutput(d5, lot, "QA", lot.state, "qa_pass_output", pass_qty, po, at, tx)
                  ELSE d5
            d7 == IF fail_qty > 0
                  THEN QASplitOutput(d6, lot, "QF", "quarantined", "qa_fail_output", fail_qty, po, at, tx)
                  ELSE d6
            d8 == AddEvent(d7, req.lot_id, "disposed", tx)
            new == [d8.lots[req.lot_id] EXCEPT !.state = "disposed"]
        IN IF enforce_lot_state_audit(d8, req.lot_id, new, tx)
           THEN Ok(UpdateLot(d8, req.lot_id, new), [production_order_id |-> po])
           ELSE Aborted(d, "23514")

\* ------------------------------------------------------ reservations_api.py
create_reservation(d, req, fp) ==
    IF req.lot_id \notin DOMAIN d.lots THEN Rejected(d, "Invalid lot_id")
    ELSE IF d.lots[req.lot_id].state \in {"quarantined", "disposed", "sold"}
        THEN Rejected(d, "Lot is not eligible for reservation")
    ELSE
        LET on_hand == available_kg(d, req.lot_id)
            already_reserved == reserved_kg(d, req.lot_id)
            remaining == on_hand - already_reserved
        IN IF GtTol(req.quantity_kg - remaining, fp)
           THEN Rejected(d, "Insufficient reservable quantity")
           ELSE Ok([d EXCEPT !.reservations =
                        Append(@, [lot_id |-> req.lot_id, quantity_kg |-> req.quantity_kg])],
                   <<>>)

RemoveAt(s, i) == SubSeq(s, 1, i - 1) \o SubSeq(s, i + 1, Len(s))

\* reservation_id is the position of the row among the rows still present
cancel_reservation(d, reservation_id, req, tx) ==
    IF ~req.notes_given THEN Rejected(d, "Notes are required to cancel a reservation")
    ELSE IF reservation_id \notin DOMAIN d.reservations
        THEN Rejected(d, "Reservation not found")
    ELSE
        LET lot_id == d.reservations[reservation_id].lot_id
            d1 == [d EXCEPT !.reservations = RemoveAt(@, reservation_id)]
        IN Ok(AddEvent(d1, lot_id, "reservation_canceled", tx), [lot_id |-> lot_id])

\* ------------------------------------------------------------ sales_api.py
\* the readiness gates alone
SellableAnyState(lot, at) ==
    IF lot.ready_at = NULL THEN "Lot has no ready_at"
    ELSE IF lot.ready_at > at THEN "Lot is not ready yet"
    ELSE ""

_is_sellable(lot, at) ==
    IF lot.state = "quarantined" THEN "Lot is quarantined"
    ELSE IF lot.state # "released" THEN "Lot is not released"
    ELSE IF lot.ready_at = NULL THEN "Lot has no ready_at"
    ELSE IF lot.ready_at > at THEN "Lot is not ready yet"
    ELSE ""

\* the sellability gate alone
SaleGateStateOnly(d, lot_id, qty, sold_at, clock, fp) ==
    _is_sellable(d.lots[lot_id], sold_at)

SaleGate(d, lot_id, qty, sold_at, clock, fp) ==
    IF _is_sellable(d.lots[lot_id], sold_at) # "" THEN _is_sellable(d.lots[lot_id], sold_at)
    ELSE IF GtTol(qty - available_for_sale_kg(d, lot_id, clock), fp)
        THEN "insufficient available (reservations included)"
    ELSE ""

RECURSIVE SaleGates(_, _, _, _, _, _)
SaleGates(d, keys, lines, sold_at, clock, fp) ==
    IF keys = <<>> THEN ""
    ELSE LET g == SaleGate(d, Head(keys), ByLotQty(lines, Head(keys)), sold_at, clock, fp)
         IN IF g # "" THEN g ELSE SaleGates(d, Tail(keys), lines, sold_at, clock, fp)

RECURSIVE SaleLines(_, _, _, _)
SaleLines(d, lines, sale_id, tx) ==
    IF lines = <<>> THEN d
    ELSE
        LET ln == Head(lines)
            d1 == [d EXCEPT !.sale_lines =
                      Append(@, [sale_id |-> sale_id, lot_id |-> ln.lot_id,
                                 quantity_kg |-> ln.quantity_kg])]
            d2 == AddEvent(d1, ln.lot_id, "sold", tx)
            d3 == AddMovement(d2, ln.lot_id, "sale", ln.quantity_kg)
        IN SaleLines(d3, Tail(lines), sale_id, tx)

\* for lot_id in by_lot.keys(): if available_kg <= 0.001: state = "sold"
RECURSIVE MarkSold(_, _)
MarkSold(d, keys) ==
    IF keys = <<>> THEN d
    ELSE IF available_kg(d, Head(keys)) <= TOLERANCE
        THEN MarkSold(UpdateLot(d, Head(keys), [d.lots[Head(keys)] EXCEPT !.state = "sold"]),
                      Tail(keys))
    ELSE MarkSold(d, Tail(keys))

\* the part of create_sale_txn after the gates: header, lines, events,
\* movements, the sold flags
SaleWrites(d, req, tx) ==
    LET keys == ByLotKeys(req.lines, {})
        d1 == [d EXCEPT !.sales = @ + 1]
        d2 == SaleLines(d1, req.lines, d1.sales, tx)
        d3 == MarkSold(d2, keys)
    IN IF \A i \in DOMAIN keys : enforce_lot_state_audit(d2, keys[i], d3.lots[keys[i]], tx)
       THEN Ok(d3, [sale_id |-> d1.sales])
       ELSE Aborted(d, "23514")

create_sale_txn(d, req, clock, tx, fp) ==
    LET sold_at == req.sold_at
        keys == ByLotKeys(req.lines, {})
    IN
    IF \E i \in DOMAIN keys : keys[i] \notin DOMAIN d.lots
        THEN Rejected(d, "One or more lot_id invalid")
    ELSE IF SaleGates(d, keys, req.lines, sold_at, clock, fp) # ""
        THEN Rejected(d, SaleGates(d, keys, req.lines, sold_at, clock, fp))
    ELSE SaleWrites(d, req, tx)

\* -------------------------------------------------------- traceability.py
\* the join production_inputs x production_outputs on production_order_id
Derives(d, a, b) ==
    \E i \in DOMAIN d.production_inputs, o \in DOMAIN d.production_outputs :
        /\ d.production_inputs[i].production_order_id = d.production_outputs[o].production_order_id
        /\ d.production_inputs[i].lot_id = a
        /\ d.production_outputs[o].output_lot_id = b

\* FORWARD_SQL without its recursive term: direct outputs only
ForwardRowsOnce(d, found, n) == found

\* recursive term of FORWARD_SQL applied until it adds no row (at most n
\* times: a derivation chain is no longer than the lots table)
RECURSIVE ForwardRows(_, _, _)
ForwardRows(d, found, n) ==
    LET next == found \cup {b \in DOMAIN d.lots : \E a \in found : Derives(d, a, b)}
    IN IF n = 0 \/ next = found THEN found ELSE ForwardRows(d, next, n - 1)

forward_trace(d, lot_id) ==
    ForwardRows(d, {b \in DOMAIN d.lots : Derives(d, lot_id, b)}, Len(d.lots))

RECURSIVE BackwardRows(_, _, _)
BackwardRows(d, found, n) ==
    LET next == found \cup {a \in DOMAIN d.lots : \E b \in found : Derives(d, a, b)}
    IN IF n = 0 \/ next = found THEN found ELSE BackwardRows(d, next, n - 1)

backward_trace(d, lot_id) ==
    BackwardRows(d, {a \in DOMAIN d.lots : Derives(d, a, lot_id)}, Len(d.lots))

\* the working table of the recursive term after n more iterations, as the
\* set of lots in its last column; UNION ALL keeps iterating until it is empty
RECURSIVE ForwardWorking(_, _, _)
ForwardWorking(d, working, n) ==
    IF n = 0 THEN working
    ELSE ForwardWorking(d, {b \in DOMAIN d.lots : \E a \in working : Derives(d, a, b)}, n - 1)

RECURSIVE BackwardWorking(_, _, _)
BackwardWorking(d, working, n) ==
    IF n = 0 THEN working
    ELSE BackwardWorking(d, {a \in DOMAIN d.lots : \E b \in working : Derives(d, a, b)}, n - 1)

\* ---------------------------------------------------- recall_actions_api.py
\* lot ids ascend along every derivation, so the loop order is immaterial
RECURSIVE QuarantineEach(_, _, _)
QuarantineEach(r, ids, tx) ==
    IF ids = {} THEN r
    ELSE
        LET lid == CHOOSE x \in ids : \A y \in ids : x <= y
            d == r.db
            d1 == AddEvent(d, lid, "quarantined_bulk", tx)
            new == [d1.lots[lid] EXCEPT !.state = "quarantined"]
            r1 == IF d.lots[lid].state = "quarantined"
                  THEN [r EXCEPT !.already = @ + 1]
                  ELSE [db |-> UpdateLot(d1, lid, new),
                        ok |-> r.ok /\ enforce_lot_state_audit(d1, lid, new, tx),
                        quarantined |-> r.quarantined + 1,
                        already |-> r.already]
        IN QuarantineEach(r1, ids \ {lid}, tx)

QuarantineResponse(lot_id, forward_ids, r) ==
    [root_lot_id |-> lot_id, forward_lot_ids |-> forward_ids,
     quarantined_count |-> r.quarantined, already_quarantined_count |-> r.already]

QuarantineLots(d, lot_id, ids, tx) ==
    LET r == QuarantineEach([db |-> d, ok |-> TRUE, quarantined |-> 0, already |-> 0], ids, tx)
    IN IF r.ok THEN Ok(r.db, QuarantineResponse(lot_id, ids, r))
       ELSE Aborted(d, "23514")

\* a recall that also quarantines the root lot
QuarantineWithRoot(d, lot_id, tx) ==
    IF lot_id \notin DOMAIN d.lots THEN Rejected(d, "Lot not found")
    ELSE QuarantineLots(d, lot_id, forward_trace(d, lot_id) \cup {lot_id}, tx)

quarantine_forward(d, lot_id, tx) ==
    IF lot_id \notin DOMAIN d.lots THEN Rejected(d, "Lot not found")
    ELSE QuarantineLots(d, lot_id, forward_trace(d, lot_id), tx)

\* ----------------------------------------------------------------- main.py
debug_change_state(d, lot_id, req, tx) ==
    IF lot_id \notin DOMAIN d.lots THEN Rejected(d, "Lot not found")
    ELSE
        LET d1 == IF req.with_event
                  THEN AddEvent(d, lot_id, "state", tx)
                  ELSE d
            new == [d1.lots[lot_id] EXCEPT !.state = req.new_state]
        IN IF req.new_state \notin LotStates THEN Aborted(d, "ck_lot_state")
           ELSE IF enforce_lot_state_audit(d1, lot_id, new, tx)
           THEN Ok(UpdateLot(d1, lot_id, new), [lot_id |-> lot_id])
           ELSE Aborted(d, "23514")

\* ---------------------------------------------------------------- actions
\* The transaction commits (session.commit) or, on an HTTPException or a
\* database error, is rolled back: the tables keep their old rows.
FinishWith(op, r, info) ==
    /\ IF r.status = "ok"
       THEN /\ lots' = r.db.lots
            /\ inventory_movements' = r.db.inventory_movements
            /\ lot_events' = r.db.lot_events
            /\ production_orders' = r.db.production_orders
            /\ production_inputs' = r.db.production_inputs
            /\ production_outputs' = r.db.production_outputs
            /\ breakdown_losses' = r.db.breakdown_losses
            /\ qa_checks' = r.db.qa_checks
            /\ reservations' = r.db.reservations
            /\ sales' = r.db.sales
            /\ sale_lines' = r.db.sale_lines
            /\ lot_code_counters' = r.db.lot_code_counters
            /\ txid' = txid + 1
       ELSE UNCHANGED <<dbvars, txid>>
    /\ result' = [op |-> op, status |-> r.status, detail |-> r.detail, info |-> info]
    /\ UNCHANGED <<now, concvars, offvars>>

Finish(op, r) == FinishWith(op, r, <<>>)

\* Requests come from one client, which stops at its first error response.
\* An error response leaves every table as it was, so the tables reachable
\* with further requests after an error are reachable without the error.
\* MaxTxn caps the number of committed transactions.
Idle == result.status = "ok" /\ txid < MaxTxn

\* ----------------------------------------------------------- request sets
FP3 == [1..3 -> BOOLEAN]

\* the float outcomes to draw: bit i is free only when difference i is 0.001
FpBits(x1, x2, x3) ==
    {f \in FP3 : /\ (x1 # TOLERANCE => ~f[1])
                 /\ (x2 # TOLERANCE => ~f[2])
                 /\ (x3 # TOLERANCE => ~f[3])}

FpBit(x) == IF x = TOLERANCE THEN BOOLEAN ELSE {FALSE}

OutputLists == {<<a>> : a \in Qtys} \cup {<<a, 1>> : a \in 1..(MaxQty - 1)}

LossLists ==
    {<<>>} \cup {<<[loss_type |-> "trim", quantity_kg |-> q]>> : q \in 1..(MaxQty - 1)}
           \cup {<<[loss_type |-> "old", quantity_kg |-> 1]>>}

\* new_state values posted to the debug endpoint
DebugStates == {"received", "released"}

Line(id, q) == [lot_id |-> id, quantity_kg |-> q]

\* one line, the same lot on two lines, or two lots
LineLists(ids) ==
    {<<Line(id, q)>> : id \in ids, q \in Qtys}
        \cup {<<Line(id, 1), Line(id, 1)>> : id \in ids}
        \cup {<<Line(p[1], 1), Line(p[2], 1)>> : p \in {x \in ids \X ids : x[1] < x[2]}}

Receiving ==
    /\ Idle
    /\ Len(lots) < MaxLots
    /\ \E q \in Qtys :
        Finish("receiving",
               create_lot_txn(DB, [quantity_kg |-> q, received_at |-> now], txid + 1))

StartAging ==
    /\ Idle
    /\ \E id \in DOMAIN lots, p \in ProfileIds :
        FinishWith("start_aging",
                   start_aging(DB, [lot_id |-> id, process_profile_id |-> p, started_at |-> now],
                               txid + 1),
                   [lot_id |-> id, process_profile_id |-> p])

ReleaseAging ==
    /\ Idle
    /\ \E id \in DOMAIN lots, t \in Times :
        FinishWith("release_aging",
                   release_aging(DB, [lot_id |-> id, released_at |-> t], txid + 1),
                   [lot_id |-> id, released_at |-> t])

Breakdown ==
    /\ Idle
    /\ \E id \in DOMAIN lots, q \in 1..(MaxQty + 1), outs \in OutputLists, ls \in LossLists :
        /\ Len(lots) + Len(outs) <= MaxLots
        /\ \E fp \in FpBits(q - ReceivedQty(DB, id),
                            Abs(SumSeq(outs) + SumQty(ls) - q),
                            Abs(q - available_kg(DB, id))) :
            FinishWith("breakdown",
                       breakdown_txn(DB, [input_lot_id |-> id, input_quantity_kg |-> q,
                                          outputs |-> outs, losses |-> ls],
                                     now, txid + 1, fp),
                       [input_lot_id |-> id, input_quantity_kg |-> q,
                        outputs |-> outs, losses |-> ls])

Mix ==
    /\ Idle
    /\ Len(lots) < MaxLots
    /\ \E p \in ProfileIds, lines \in LineLists(DOMAIN lots), t \in Times, fp \in BOOLEAN :
        FinishWith("mix",
                   mix(DB, [process_profile_id |-> p, inputs |-> lines, performed_at |-> t],
                       txid + 1, fp),
                   [process_profile_id |-> p, inputs |-> lines, performed_at |-> t])

Rework ==
    /\ Idle
    /\ Len(lots) + 2 <= MaxLots
    /\ \E id \in DOMAIN lots, q \in 1..(MaxQty + 1), ls \in LossLists :
        \E fp \in FpBits(q - available_kg(DB, id), SumQty(ls) - q, available_kg(DB, id) - q) :
            FinishWith("rework",
                       create_rework(DB, [input_lot_id |-> id, rework_quantity_kg |-> q,
                                          losses |-> ls],
                                     now, txid + 1, fp),
                       [input_lot_id |-> id, rework_quantity_kg |-> q, losses |-> ls])

QAFull ==
    /\ Idle
    /\ \E id \in DOMAIN lots, passed \in BOOLEAN :
        Finish("qa_full", qa_check_full(DB, [lot_id |-> id, passed |-> passed], txid + 1))

QAPartial ==
    /\ Idle
    /\ Len(lots) + 2 <= MaxLots
    /\ \E id \in DOMAIN lots, pq \in 0..MaxQty, fq \in 0..1 :
        \E fp \in FpBit(Abs(pq + fq - available_kg(DB, id))) :
            FinishWith("qa_partial",
                       qa_check_partial(DB, [lot_id |-> id, pass_qty_kg |-> pq, fail_qty_kg |-> fq],
                                        now, txid + 1, fp),
                       [lot_id |-> id, pass_qty_kg |-> pq, fail_qty_kg |-> fq])

CreateReservation ==
    /\ Idle
    /\ \E id \in DOMAIN lots, q \in Qtys, fp \in BOOLEAN :
        Finish("create_reservation",
               create_reservation(DB, [lot_id |-> id, quantity_kg |-> q], fp))

CancelReservation ==
    /\ Idle
    /\ \E rid \in DOMAIN reservations, n \in BOOLEAN :
        Finish("cancel_reservation",
               cancel_reservation(DB, rid, [notes_given |-> n], txid + 1))

Sale ==
    /\ Idle
    /\ \E lines \in LineLists(DOMAIN lots), t \in Times, fp \in BOOLEAN :
        Finish("sale",
               create_sale_txn(DB, [lines |-> lines, sold_at |-> t], now, txid + 1, fp))

QuarantineForward ==
    /\ Idle
    /\ \E id \in DOMAIN lots :
        \E r \in {quarantine_forward(DB, id, txid + 1)} :
            FinishWith("quarantine_forward", r, r.refs)

DebugChangeState ==
    /\ Idle
    /\ \E id \in DOMAIN lots, s \in DebugStates, we \in BOOLEAN :
        FinishWith("debug_change_state",
                   debug_change_state(DB, id, [new_state |-> s, with_event |-> we], txid + 1),
                   [lot_id |-> id, new_state |-> s, with_event |-> we])

Tick ==
    /\ Idle
    /\ now < MaxTime
    /\ now' = now + 1
    /\ UNCHANGED <<dbvars, txid, result, concvars, offvars>>

Init ==
    /\ lots = <<>>
    /\ inventory_movements = <<>>
    /\ lot_events = <<>>
    /\ production_orders = <<>>
    /\ production_inputs = <<>>
    /\ production_outputs = <<>>
    /\ breakdown_losses = <<>>
    /\ qa_checks = <<>>
    /\ reservations = <<>>
    /\ sales = 0
    /\ sale_lines = <<>>
    /\ lot_code_counters = [k \in Times \X Prefixes |-> NULL]
    /\ txid = 0
    /\ now = 0
    /\ result = [op |-> "none", status |-> "ok", detail |-> "", info |-> <<>>]
    /\ sess = [p \in Procs |-> IdleSession]
    /\ locks = [k \in CounterKeys |-> 0]
    /\ issued = [k \in CounterKeys |-> <<>>]
    /\ cmd = [p \in Procs |-> IdleCommand]
    /\ base = NoBase
    /\ offline_queue = <<>>
    /\ offline_conflicts = <<>>
    /\ oq_seq = 0

Next ==
    \/ Receiving
    \/ StartAging
    \/ ReleaseAging
    \/ Breakdown
    \/ Mix
    \/ Rework
    \/ QAFull
    \/ QAPartial
    \/ CreateReservation
    \/ CancelReservation
    \/ Sale
    \/ QuarantineForward
    \/ DebugChangeState
    \/ Tick

Spec == Init /\ [][Next]_vars

\* ------------------------------------------- lot_codes.py, concurrent callers
\* Sessions run transactions side by side (PostgreSQL, READ COMMITTED).  A
\* transaction is that of any caller of next_lot_code: each call is followed
\* by the INSERT of the lot that carries the code (receiving.py, breakdown.py,
\* mixing_api.py, rework_api.py, qa_api.py), then it commits or rolls back.
\* a plain SELECT: no row lock is asked for and none is waited for
select_plain(lk, k, p) == [blocked |-> FALSE, locks |-> lk]

\* SELECT .. FOR UPDATE: waits while another transaction holds the row lock,
\* then holds it to the end of the transaction
select_for_update(lk, k, p) ==
    [blocked |-> lk[k] \notin {0, p}, locks |-> [lk EXCEPT ![k] = p]]

\* the counter row as the statement of session p reads it
CounterSeenBy(p, k) ==
    IF sess[p].writes[k] # NULL THEN sess[p].writes[k] ELSE lot_code_counters[k]

\* a caller enters next_lot_code(prefix, at)
BeginCall(p) ==
    /\ sess[p].pc \in {"idle", "called"}
    /\ sess[p].pc = "idle" => txid < MaxTxn
    /\ Len(sess[p].codes) < MaxCalls
    /\ \E k \in CounterKeys :
        sess' = [sess EXCEPT ![p].pc = "insert", ![p].key = k]
    /\ UNCHANGED <<dbvars, txid, now, result, locks, issued, offvars, cmdvars>>

\* INSERT .. VALUES (:d, :p, 0) ON CONFLICT DO NOTHING: waits for the
\* transaction of an uncommitted row with the same key
InsertCounter(p) ==
    LET k == sess[p].key IN
    /\ sess[p].pc = "insert"
    /\ IF CounterSeenBy(p, k) # NULL
       THEN /\ sess' = [sess EXCEPT ![p].pc = "select"]
            /\ UNCHANGED locks
       ELSE /\ \A q \in Procs \ {p} : sess[q].writes[k] = NULL
            /\ sess' = [sess EXCEPT ![p].pc = "select", ![p].writes[k] = 0]
            /\ locks' = [locks EXCEPT ![k] = p]
    /\ UNCHANGED <<dbvars, txid, now, result, issued, offvars, cmdvars>>

SelectCounter(p) ==
    LET k == sess[p].key
        r == select_for_update(locks, k, p)
    IN
    /\ sess[p].pc = "select"
    /\ ~r.blocked
    /\ locks' = r.locks
    /\ sess' = [sess EXCEPT ![p].pc = "update", ![p].last_seq = CounterSeenBy(p, k)]
    /\ UNCHANGED <<dbvars, txid, now, result, issued, offvars, cmdvars>>

\* next_seq = last_seq + 1; UPDATE .. SET last_seq = :next_seq (an UPDATE
\* takes the row lock itself); return the formatted code
UpdateCounter(p) ==
    LET k == sess[p].key
        next_seq == sess[p].last_seq + 1
    IN
    /\ sess[p].pc = "update"
    /\ locks[k] \in {0, p}
    /\ locks' = [locks EXCEPT ![k] = p]
    /\ sess' = [sess EXCEPT ![p].pc = "returned", ![p].writes[k] = next_seq,
                            ![p].codes = Append(@, <<k, next_seq>>)]
    /\ UNCHANGED <<dbvars, txid, now, result, issued, offvars, cmdvars>>

CodeOf(c) == LotCodeFormat(c[1][2], c[1][1], c[2])

EndTransaction(p) ==
    /\ sess' = [sess EXCEPT ![p] = IdleSession]
    /\ locks' = [k \in CounterKeys |-> IF locks[k] = p THEN 0 ELSE locks[k]]

\* the caller INSERTs the lot; lots.lot_code is unique: the INSERT waits for
\* an uncommitted lot with the same code and fails on a committed one, which
\* ends the transaction
InsertLot(p) ==
    LET code == CodeOf(sess[p].codes[Len(sess[p].codes)]) IN
    /\ sess[p].pc = "returned"
    /\ \A q \in Procs \ {p} :
          \A i \in DOMAIN sess[q].new_lots : sess[q].new_lots[i] # code
    /\ IF \E i \in DOMAIN lots : lots[i].lot_code = code
       THEN EndTransaction(p)
       ELSE /\ sess' = [sess EXCEPT ![p].pc = "called", ![p].new_lots = Append(@, code)]
            /\ UNCHANGED locks
    /\ UNCHANGED <<dbvars, txid, now, result, issued, offvars, cmdvars>>

RECURSIVE SeqsOfKey(_, _)
SeqsOfKey(codes, k) ==
    IF codes = <<>> THEN <<>>
    ELSE IF Head(codes)[1] = k THEN <<Head(codes)[2]>> \o SeqsOfKey(Tail(codes), k)
    ELSE SeqsOfKey(Tail(codes), k)

Commit(p) ==
    /\ sess[p].pc = "called"
    /\ lot_code_counters' =
          [k \in DOMAIN lot_code_counters |->
              IF k \in CounterKeys /\ sess[p].writes[k] # NULL
              THEN sess[p].writes[k] ELSE lot_code_counters[k]]
    /\ lots' = lots \o [i \in DOMAIN sess[p].new_lots |->
                          NewLot(sess[p].new_lots[i], "received", NULL, NULL, NULL, NULL)]
    /\ issued' = [k \in CounterKeys |-> issued[k] \o SeqsOfKey(sess[p].codes, k)]
    /\ txid' = txid + 1
    /\ EndTransaction(p)
    /\ UNCHANGED <<inventory_movements, lot_events, production_orders, production_inputs,
                   production_outputs, breakdown_losses, qa_checks, reservations, sales,
                   sale_lines, now, result, offvars, cmdvars>>

\* an error in the caller, a deadlock abort or a lost connection
Rollback(p) ==
    /\ sess[p].pc # "idle"
    /\ EndTransaction(p)
    /\ UNCHANGED <<dbvars, txid, now, result, issued, offvars, cmdvars>>

NextLotCode ==
    \E p \in Procs :
        \/ BeginCall(p)
        \/ InsertCounter(p)
        \/ SelectCounter(p)
        \/ UpdateCounter(p)
        \/ InsertLot(p)
        \/ Commit(p)
        \/ Rollback(p)

SpecLotCode == Init /\ [][NextLotCode]_vars

\* ---------------------------------------------------------- offline_api.py
\* submit_queue: for a in req.actions: add, flush; an IntegrityError (the
\* unique constraint on client_id, client_txn_id) is answered by
\* session.rollback(), which ends the transaction: the rows flushed so far in
\* this call go with it.  st.added holds the rows of the open transaction.
RECURSIVE SubmitLoop(_, _, _)
SubmitLoop(client_id, actions, st) ==
    IF actions = <<>> THEN st
    ELSE
        LET a == Head(actions)
            id == st.seq + 1
            row == [id |-> id, client_id |-> client_id, client_txn_id |-> a.client_txn_id,
                    action_type |-> a.action_type, payload |-> a.payload,
                    status |-> "queued", conflict_reason |-> NULL]
            rows == st.committed \o st.added
            duplicate == \E i \in DOMAIN rows :
                            /\ rows[i].client_id = client_id
                            /\ rows[i].client_txn_id = a.client_txn_id
            st1 == IF duplicate
                   THEN [st EXCEPT !.added = <<>>, !.seq = id,
                            !.results = Append(@, [client_txn_id |-> a.client_txn_id,
                                                   status |-> "duplicate",
                                                   offline_queue_id |-> NULL])]
                   ELSE [st EXCEPT !.added = Append(@, row), !.seq = id,
                            !.results = Append(@, [client_txn_id |-> a.client_txn_id,
                                                   status |-> "queued",
                                                   offline_queue_id |-> id])]
        IN SubmitLoop(client_id, Tail(actions), st1)

submit_queue(queue, seq, req) ==
    SubmitLoop(req.client_id, req.actions,
               [committed |-> queue, added |-> <<>>, seq |-> seq, results |-> <<>>])

\* conflict_signals of apply_queue
ConflictSignals ==
    {"insufficient available", "insufficient sellable", "not released", "not ready",
     "quarantined", "Weight mismatch", "already used", "must consume full available",
     "Invalid"}

\* the signals s with s.lower() in msg.lower(), for the messages of the three
\* handlers the reconciler calls
SignalsIn(msg) ==
    CASE msg = "Invalid input_lot_id" -> {"Invalid"}
      [] msg = "Cannot breakdown a quarantined lot" -> {"quarantined"}
      [] msg = "One or more loss_type is invalid or inactive" -> {"Invalid"}
      [] msg = "Weight mismatch" -> {"Weight mismatch"}
      [] msg = "Insufficient available quantity on input lot" -> {"insufficient available"}
      [] msg = "Breakdown must consume full available quantity" -> {"must consume full available"}
      [] msg = "One or more lot_id invalid" -> {"Invalid"}
      [] msg = "Lot is quarantined" -> {"quarantined"}
      [] msg = "Lot is not released" -> {"not released"}
      [] msg = "Lot is not ready yet" -> {"not ready"}
      [] msg = "insufficient available (reservations included)" -> {"insufficient available"}
      [] OTHER -> {}

\* classification by the conflict_signals of _apply_one instead
IsConflictByApplyOne(reason) ==
    SignalsIn(reason) \cap {"insufficient available", "not released", "not ready",
                            "quarantined", "Weight mismatch", "lot_code already exists",
                            "Invalid"} # {}

is_conflict(reason) == SignalsIn(reason) \cap ConflictSignals # {}

\* server_refs of a row that has none (None)
NoRefs == [none |-> TRUE]

\* _apply_one.  receiving_create_lot(req, session) hands create_lot_txn
\* (session, req) its arguments in the other order: its first statement,
\* session.execute, is asked of the request object and raises AttributeError
\* before any row is written.  A failing handler returns the tables as it
\* found them, and so does a database error (the savepoint).
HandlerOutcome(r, refs_key) ==
    IF r.status = "ok"
    THEN [status |-> "applied", refs |-> r.refs, reason |-> NULL, db |-> r.db]
    ELSE [status |-> "conflict", refs |-> NoRefs, reason |-> r.detail, db |-> r.db]

_apply_one(d, oq, clock, tx, fp) ==
    IF oq.action_type = "receiving"
        THEN [status |-> "conflict", refs |-> NoRefs,
              reason |-> "object has no attribute 'execute'", db |-> d]
    ELSE IF oq.action_type = "breakdown"
        THEN HandlerOutcome(breakdown_txn(d, oq.payload, clock, tx, fp), "production_order_id")
    ELSE IF oq.action_type = "sale"
        THEN HandlerOutcome(create_sale_txn(d, oq.payload, clock, tx, fp[1]), "sale_id")
    ELSE [status |-> "rejected", refs |-> NoRefs, reason |-> "Unknown action_type", db |-> d]

\* every action so far has applied
ActionAppliedAlways(status) == TRUE

\* if status != "applied": failed = ..; raise
ActionApplied(status) == status = "applied"

\* the actions of one group inside the SAVEPOINT; stops at the first failure
RECURSIVE ApplyActions(_, _, _, _, _, _)
AfterAction(one, group, clock, tx, fp, refs_by_oq) ==
    IF ~ActionApplied(one.status)
    THEN [failed |-> TRUE, reason |-> one.reason, db |-> one.db, refs |-> refs_by_oq]
    ELSE ApplyActions(one.db, Tail(group), clock, tx, fp, Append(refs_by_oq, one.refs))

ApplyActions(d, group, clock, tx, fp, refs_by_oq) ==
    IF group = <<>> THEN [failed |-> FALSE, reason |-> NULL, db |-> d, refs |-> refs_by_oq]
    ELSE AfterAction(_apply_one(d, Head(group), clock, tx, fp), group, clock, tx, fp,
                     refs_by_oq)

\* group by client_txn_id while preserving order
RECURSIVE GroupRows(_, _)
GroupRows(rows, groups) ==
    IF rows = <<>> THEN groups
    ELSE IF groups # <<>>
            /\ groups[Len(groups)][1].client_txn_id = Head(rows).client_txn_id
        THEN GroupRows(Tail(rows), [groups EXCEPT ![Len(groups)] = Append(@, Head(rows))])
    ELSE GroupRows(Tail(rows), Append(groups, <<Head(rows)>>))

SetStatus(queue, ids, status, reason) ==
    [i \in DOMAIN queue |->
        IF queue[i].id \in ids
        THEN [queue[i] EXCEPT !.status = status, !.conflict_reason = reason]
        ELSE queue[i]]

\* the status of a group's rows: applied, or by the signals in the reason
GroupStatus(run) ==
    IF ~run.failed THEN "applied"
    ELSE IF is_conflict(run.reason) THEN "conflict" ELSE "rejected"

\* the status updates, the conflict rows and the results of one group
RecordGroup(st, group, run, status, db_after) ==
    [db |-> db_after,
     queue |-> SetStatus(st.queue, {group[i].id : i \in DOMAIN group}, status,
                         IF status = "applied" THEN NULL
                         ELSE <<"txn:", group[1].client_txn_id, " | ", run.reason>>),
     conflicts |-> st.conflicts \o
                   (IF status = "conflict"
                    THEN [i \in DOMAIN group |->
                             [offline_queue_id |-> group[i].id,
                              conflict_type |-> "txn_conflict",
                              reason |-> run.reason, resolution |-> NULL]]
                    ELSE <<>>),
     tx |-> st.tx + 1,
     groups |-> Append(st.groups,
                       [rows |-> [i \in DOMAIN group |->
                                     [offline_queue_id |-> group[i].id,
                                      client_txn_id |-> group[i].client_txn_id,
                                      status |-> status,
                                      server_refs |-> IF ~run.failed /\ i \in DOMAIN run.refs
                                                      THEN run.refs[i] ELSE NoRefs,
                                      reason |-> run.reason]],
                        artifacts_changed |-> db_after # st.db])]

\* leaving begin_nested() by an exception rolls back to the savepoint
AfterSavepoint(st, group, run) ==
    RecordGroup(st, group, run, GroupStatus(run), IF run.failed THEN st.db ELSE run.db)

\* one group: SAVEPOINT, the actions, the status updates, session.commit()
ApplyGroup(st, group, clock, fp) ==
    AfterSavepoint(st, group, ApplyActions(st.db, group, clock, st.tx + 1, fp, <<>>))

RECURSIVE ApplyGroups(_, _, _, _)
ApplyGroups(st, groups, clock, fp) ==
    IF groups = <<>> THEN st
    ELSE ApplyGroups(ApplyGroup(st, Head(groups), clock, fp), Tail(groups), clock, fp)

\* the queued rows of the client, oldest first (rows are kept in insertion
\* order; the limit of 200 is beyond the bounds here)
apply_queue(d, queue, conflicts, req, clock, tx, fp) ==
    LET P(r) == r.client_id = req.client_id /\ r.status = "queued"
        q == SelectSeq(queue, P)
    IN ApplyGroups([db |-> d, queue |-> queue, conflicts |-> conflicts, tx |-> tx,
                    groups |-> <<>>],
                   GroupRows(q, <<>>), clock, fp)

\* a resolve that does not look at the status of the row
ResolveAnyStatus(queue, conflicts, offline_queue_id, req) ==
    [status |-> "ok", detail |-> "",
     queue |-> SetStatus(queue, {offline_queue_id}, req.resolution,
                         <<"Resolved: ", req.reason>>),
     conflicts |-> conflicts]

resolve_conflict(queue, conflicts, offline_queue_id, req) ==
    IF ~\E i \in DOMAIN queue : queue[i].id = offline_queue_id
        THEN [status |-> "rejected", detail |-> "offline_queue_id not found",
              queue |-> queue, conflicts |-> conflicts]
    ELSE IF \E i \in DOMAIN queue : queue[i].id = offline_queue_id /\ queue[i].status # "conflict"
        THEN [status |-> "rejected", detail |-> "Only conflict items can be resolved",
              queue |-> queue, conflicts |-> conflicts]
    ELSE [status |-> "ok", detail |-> "",
          queue |-> SetStatus(queue, {offline_queue_id}, req.resolution,
                             <<"Resolved: ", req.reason>>),
          conflicts |-> [i \in DOMAIN conflicts |->
                            IF conflicts[i].offline_queue_id = offline_queue_id
                            THEN [conflicts[i] EXCEPT !.resolution = req.resolution]
                            ELSE conflicts[i]]]

\* ------------------------------------------------- offline request sets
ClientIds == {"c1", "c2"}
ClientTxnIds == {"t-1", "t-2"}

OfflinePayloads(action_type) ==
    IF action_type = "receiving" THEN {[quantity_kg |-> 1]}
    ELSE IF action_type = "breakdown"
        THEN {[input_lot_id |-> 1, input_quantity_kg |-> q, outputs |-> <<q>>,
               losses |-> <<>>] : q \in Qtys}
    ELSE {[lines |-> <<Line(1, 1)>>, sold_at |-> 0]}

OfflineActions ==
    UNION {{[client_txn_id |-> t, action_type |-> a, payload |-> pl] :
                t \in ClientTxnIds, pl \in OfflinePayloads(a)} :
           a \in {"receiving", "breakdown", "sale"}}

Batches == {<<a>> : a \in OfflineActions}
               \cup {<<a, b>> : a \in OfflineActions, b \in OfflineActions}

SubmitBatch(c, actions) ==
    /\ \E st \in {submit_queue(offline_queue, oq_seq, [client_id |-> c, actions |-> actions])} :
           /\ offline_queue' = offline_queue \o st.added
           /\ oq_seq' = st.seq
           /\ txid' = txid + 1
           /\ result' = [op |-> "submit_queue", status |-> "ok", detail |-> "",
                         info |-> [client_id |-> c, results |-> st.results,
                                   action_types |-> [i \in DOMAIN actions |->
                                                        actions[i].action_type]]]
    /\ UNCHANGED <<dbvars, now, concvars, offline_conflicts>>

SubmitQueue ==
    /\ Idle
    /\ oq_seq < MaxQueued
    /\ \E c \in ClientIds, actions \in Batches : SubmitBatch(c, actions)

ApplyQueue ==
    /\ Idle
    /\ \E c \in ClientIds, b \in BOOLEAN :
        \E st \in {apply_queue(DB, offline_queue, offline_conflicts, [client_id |-> c],
                                now, txid, [i \in 1..3 |-> b])} :
           /\ lots' = st.db.lots
           /\ inventory_movements' = st.db.inventory_movements
           /\ lot_events' = st.db.lot_events
           /\ production_orders' = st.db.production_orders
           /\ production_inputs' = st.db.production_inputs
           /\ production_outputs' = st.db.production_outputs
           /\ breakdown_losses' = st.db.breakdown_losses
           /\ qa_checks' = st.db.qa_checks
           /\ reservations' = st.db.reservations
           /\ sales' = st.db.sales
           /\ sale_lines' = st.db.sale_lines
           /\ lot_code_counters' = st.db.lot_code_counters
           /\ offline_queue' = st.queue
           /\ offline_conflicts' = st.conflicts
           /\ txid' = st.tx
           /\ result' = [op |-> "apply_queue", status |-> "ok", detail |-> "",
                         info |-> [client_id |-> c, groups |-> st.groups]]
    /\ UNCHANGED <<now, concvars, oq_seq>>

ResolveConflict ==
    /\ Idle
    /\ \E id \in 1..(oq_seq + 1) :
        \E r \in {resolve_conflict(offline_queue, offline_conflicts, id,
                                    [resolution |-> "rejected", reason |-> "ok"])} :
           /\ offline_queue' = r.queue
           /\ offline_conflicts' = r.conflicts
           /\ txid' = IF r.status = "ok" THEN txid + 1 ELSE txid
           /\ result' = [op |-> "resolve_conflict", status |-> r.status,
                         detail |-> r.detail, info |-> [offline_queue_id |-> id]]
    /\ UNCHANGED <<dbvars, now, concvars, oq_seq>>

\* the online endpoint for an action type, given the same payload:
\* POST /receiving/lots, POST /production/breakdown, POST /sales
OnlineCommand(d, action_type, payload, clock, tx, fp) ==
    IF action_type = "receiving"
        THEN create_lot_txn(d, [quantity_kg |-> payload.quantity_kg, received_at |-> clock], tx)
    ELSE IF action_type = "breakdown" THEN breakdown_txn(d, payload, clock, tx, fp)
    ELSE create_sale_txn(d, payload, clock, tx, fp[1])

NextOffline ==
    \/ Receiving
    \/ SubmitQueue
    \/ ApplyQueue
    \/ ResolveConflict

SpecOffline == Init /\ [][NextOffline]_vars

\* ------------------------------------------------- the way to a sale
\* Receiving, aging, release, reservation and sale alone, over few lots, so
\* that a lot can be received, aged, released, reserved and sold in one run.
SaleFlowIdle == result.status = "ok" /\ txid < MaxSaleTxn

SaleFlowReceiving ==
    /\ SaleFlowIdle
    /\ Len(lots) < MaxSaleLots
    /\ \E q \in 1..MaxSaleQty :
        Finish("receiving",
               create_lot_txn(DB, [quantity_kg |-> q, received_at |-> now], txid + 1))

SaleFlowStartAging ==
    /\ SaleFlowIdle
    /\ \E id \in DOMAIN lots, p \in ProfileIds :
        Finish("start_aging",
               start_aging(DB, [lot_id |-> id, process_profile_id |-> p, started_at |-> now],
                           txid + 1))

SaleFlowReleaseAging ==
    /\ SaleFlowIdle
    /\ \E id \in DOMAIN lots, t \in Times :
        Finish("release_aging",
               release_aging(DB, [lot_id |-> id, released_at |-> t], txid + 1))

SaleFlowCreateReservation ==
    /\ SaleFlowIdle
    /\ \E id \in DOMAIN lots, q \in Qtys, fp \in BOOLEAN :
        FinishWith("create_reservation",
                   create_reservation(DB, [lot_id |-> id, quantity_kg |-> q], fp),
                   [lot_id |-> id, quantity_kg |-> q])

SaleFlowSale ==
    /\ SaleFlowIdle
    /\ \E lines \in LineLists(DOMAIN lots), t \in Times, fp \in BOOLEAN :
        FinishWith("sale",
                   create_sale_txn(DB, [lines |-> lines, sold_at |-> t], now, txid + 1, fp),
                   [lines |-> lines, sold_at |-> t])

SaleFlowTick ==
    /\ SaleFlowIdle
    /\ now < MaxTime
    /\ now' = now + 1
    /\ UNCHANGED <<dbvars, txid, result, concvars, offvars>>

NextSaleFlow ==
    \/ SaleFlowReceiving
    \/ SaleFlowStartAging
    \/ SaleFlowReleaseAging
    \/ SaleFlowCreateReservation
    \/ SaleFlowSale
    \/ SaleFlowTick

SpecSaleFlow == Init /\ [][NextSaleFlow]_vars

\* ------------------------------------------ concurrent sale and mix requests
\* Sessions of the pool run create_sale and mix side by side, each in its own
\* transaction at READ COMMITTED.  A request goes through: its row locks,
\* one at a time; its gates, read from the committed tables; its writes and
\* session.commit(), which releases its locks.  The requests begin once the
\* lots are set up, one request per session.

RECURSIVE SortedIds(_)
SortedIds(ids) ==
    IF ids = {} THEN <<>>
    ELSE LET m == CHOOSE x \in ids : \A y \in ids : x <= y
         IN <<m>> \o SortedIds(ids \ {m})

\* row locks taken in the order of the request lines
RequestOrder(lines) == ByLotKeys(lines, {})

\* select(Lot).where(Lot.id.in_(lot_ids)).order_by(Lot.id).with_for_update()
SaleLockOrder(lines) == SortedIds({lines[i].lot_id : i \in DOMAIN lines})

\* mix locks no lot row: select(Lot).where(Lot.id.in_(...)) is a plain read.
\* Its one lock is the MIX counter row of the day, taken by next_lot_code
\* (row 0 here; lot rows are 1, 2, ..).
MixLockOrder(lines) == <<0>>

\* the request lines of LineLists, and two lots named in descending order
CmdLineLists(ids) ==
    LineLists(ids) \cup {<<Line(x[2], 1), Line(x[1], 1)>> : x \in {y \in ids \X ids : y[1] < y[2]}}

Quiet == \A p \in Procs : cmd[p].pc = "idle"

\* The lots are set up before the requests begin, one lot after the other:
\* received, aged from day 0, released on the day of the requests.
SetupIdle == Quiet /\ result.status = "ok"

ConcTick ==
    /\ SetupIdle
    /\ lots = <<>>
    /\ now < MaxTime
    /\ now' = now + 1
    /\ UNCHANGED <<dbvars, txid, result, concvars, offvars>>

ConcReceiving ==
    /\ SetupIdle
    /\ Len(lots) < MaxSaleLots
    /\ \A id \in DOMAIN lots : lots[id].state = "released"
    /\ \E q \in Qtys :
        Finish("receiving",
               create_lot_txn(DB, [quantity_kg |-> q, received_at |-> now], txid + 1))

ConcStartAging ==
    /\ SetupIdle
    /\ \E id \in DOMAIN lots :
        /\ lots[id].state = "received"
        /\ Finish("start_aging",
                  start_aging(DB, [lot_id |-> id, process_profile_id |-> 2, started_at |-> 0],
                              txid + 1))

ConcReleaseAging ==
    /\ SetupIdle
    /\ \E id \in DOMAIN lots :
        /\ lots[id].state = "aging"
        /\ Finish("release_aging",
                  release_aging(DB, [lot_id |-> id, released_at |-> now], txid + 1))

BeginCommand(p, kind, req, todo) ==
    /\ cmd[p].pc = "idle"
    /\ result.status = "ok"
    /\ cmd' = [cmd EXCEPT ![p] = [IdleCommand EXCEPT !.pc = "lock", !.kind = kind,
                                                     !.req = req, !.todo = todo]]
    /\ base' = IF Quiet THEN DB ELSE base
    /\ UNCHANGED <<dbvars, txid, now, result, sess, locks, issued, offvars>>

BeginSale(p) ==
    \E lines \in CmdLineLists(DOMAIN lots) :
        BeginCommand(p, "sale", [lines |-> lines, sold_at |-> now], SaleLockOrder(lines))

BeginMix(p) ==
    \E lines \in CmdLineLists(DOMAIN lots) :
        BeginCommand(p, "mix",
                     [process_profile_id |-> 2, inputs |-> lines, performed_at |-> now],
                     MixLockOrder(lines))

\* SELECT .. FOR UPDATE waits while another transaction holds the row
CmdLock(p) ==
    /\ cmd[p].pc = "lock"
    /\ \A q \in Procs \ {p} : Head(cmd[p].todo) \notin cmd[q].held
    /\ cmd' = [cmd EXCEPT ![p].held = @ \cup {Head(cmd[p].todo)},
                          ![p].todo = Tail(@),
                          ![p].pc = IF Len(cmd[p].todo) = 1 THEN "check" ELSE "lock"]
    /\ UNCHANGED <<dbvars, txid, now, result, sess, locks, issued, offvars, base>>

\* rows of lot_code_counters for the day of the requests (lot rows are 1, 2, ..)
CounterRow(prefix) ==
    IF prefix = "MIX" THEN 0
    ELSE IF prefix = "BD" THEN 0 - 2
    ELSE IF prefix = "RW" THEN 0 - 3
    ELSE IF prefix = "RM" THEN 0 - 4
    ELSE IF prefix = "QA" THEN 0 - 5
    ELSE IF prefix = "QF" THEN 0 - 6
    ELSE 0 - 7

\* the handlers other than create_sale and mix, on the tables as they are
CommandTxn(c, d, tx) ==
    IF c.kind = "receiving" THEN create_lot_txn(d, c.req.body, tx)
    ELSE IF c.kind = "reservation" THEN create_reservation(d, c.req.body, c.req.fp[1])
    ELSE IF c.kind = "breakdown" THEN breakdown_txn(d, c.req.body, c.req.at, tx, c.req.fp)
    ELSE IF c.kind = "rework" THEN create_rework(d, c.req.body, c.req.at, tx, c.req.fp)
    ELSE IF c.kind = "qa" THEN qa_check_partial(d, c.req.body, c.req.at, tx, c.req.fp[1])
    ELSE QuarantineLots(d, c.req.lot_id, c.req.forward_ids, tx)

\* the counter rows next_lot_code locks after the gates of the handler, in
\* the order of its calls
CodeLocks(c, d) ==
    IF c.kind = "receiving" THEN <<CounterRow("REC")>>
    ELSE IF c.kind = "breakdown" THEN <<CounterRow("BD")>>
    ELSE IF c.kind = "rework"
        THEN <<CounterRow("RW")>> \o
             (IF GtTol(available_kg(d, c.req.body.input_lot_id) - c.req.body.rework_quantity_kg,
                       c.req.fp[3])
              THEN <<CounterRow("RM")>> ELSE <<>>)
    ELSE IF c.kind = "qa"
        THEN (IF c.req.body.pass_qty_kg > 0 THEN <<CounterRow("QA")>> ELSE <<>>) \o
             (IF c.req.body.fail_qty_kg > 0 THEN <<CounterRow("QF")>> ELSE <<>>)
    ELSE <<>>

CmdOutcome(c, d, clock, tx, fp) ==
    IF c.kind = "sale" THEN create_sale_txn(d, c.req, clock, tx, fp)
    ELSE IF c.kind = "mix" THEN mix(d, c.req, tx, fp)
    ELSE CommandTxn(c, d, tx)

CmdWrites(c, d, tx) ==
    IF c.kind = "sale" THEN SaleWrites(d, c.req, tx)
    ELSE IF c.kind = "mix" THEN MixWrites(d, c.req, tx)
    ELSE CommandTxn(c, d, tx)

\* a failed gate raises HTTPException: the transaction ends, locks released
AfterGates(c, r, codes) ==
    IF r.status # "ok"
        THEN [c EXCEPT !.pc = "done", !.held = {}, !.status = r.status, !.detail = r.detail]
    ELSE IF codes = <<>> THEN [c EXCEPT !.pc = "write"]
    ELSE [c EXCEPT !.pc = "codes", !.todo = codes]

CmdCheck(p) ==
    /\ cmd[p].pc = "check"
    /\ \E fp \in BOOLEAN :
          cmd' = [cmd EXCEPT ![p] = AfterGates(@, CmdOutcome(cmd[p], DB, now, txid + 1, fp),
                                               CodeLocks(cmd[p], DB))]
    /\ UNCHANGED <<dbvars, txid, now, result, sess, locks, issued, offvars, base>>

CmdCommit(p) ==
    /\ cmd[p].pc = "write"
    /\ \E r \in {CmdWrites(cmd[p], DB, txid + 1)} :
          /\ lots' = r.db.lots
          /\ inventory_movements' = r.db.inventory_movements
          /\ lot_events' = r.db.lot_events
          /\ production_orders' = r.db.production_orders
          /\ production_inputs' = r.db.production_inputs
          /\ production_outputs' = r.db.production_outputs
          /\ breakdown_losses' = r.db.breakdown_losses
          /\ qa_checks' = r.db.qa_checks
          /\ reservations' = r.db.reservations
          /\ sales' = r.db.sales
          /\ sale_lines' = r.db.sale_lines
          /\ lot_code_counters' = r.db.lot_code_counters
          /\ txid' = txid + 1
          /\ cmd' = [cmd EXCEPT ![p].pc = "done", ![p].held = {},
                                ![p].status = r.status, ![p].detail = r.detail]
    /\ UNCHANGED <<now, result, sess, locks, issued, offvars, base>>

NextConcurrent ==
    \/ ConcTick
    \/ ConcReceiving
    \/ ConcStartAging
    \/ ConcReleaseAging
    \/ \E p \in Procs : BeginSale(p)
    \/ \E p \in Procs : BeginMix(p)
    \/ \E p \in Procs : CmdLock(p)
    \/ \E p \in Procs : CmdCheck(p)
    \/ \E p \in Procs : CmdCommit(p)

SpecConcurrent == Init /\ [][NextConcurrent]_vars

\* Sale requests alone.  Every session is a task of the event loop with a
\* connection of its own: a request that can take its next step does so,
\* and a request waiting for a row lock goes on once the row is free.
CmdStep(p) == CmdLock(p) \/ CmdCheck(p) \/ CmdCommit(p)

NextSales ==
    \/ ConcTick
    \/ ConcReceiving
    \/ ConcStartAging
    \/ ConcReleaseAging
    \/ \E p \in Procs : BeginSale(p)
    \/ \E p \in Procs : CmdLock(p)
    \/ \E p \in Procs : CmdCheck(p)
    \/ \E p \in Procs : CmdCommit(p)

FairSales == Init /\ [][NextSales]_vars /\ \A p \in Procs : WF_vars(CmdStep(p))

\* ------------------------------------------- two apply calls of one client
\* POST /offline/sync/apply in steps: the SELECT of the client's queued rows,
\* then one transaction per group (savepoint, status updates, commit).  The
\* handlers of a group hold their lot rows until the group commits, so a
\* group is one step.  The rows a call works on are the ones it selected.
ApplyReceiving ==
    /\ SetupIdle
    /\ lots = <<>>
    /\ \E q \in 1..MaxSaleQty :
        Finish("receiving",
               create_lot_txn(DB, [quantity_kg |-> q, received_at |-> now], txid + 1))

\* the actions the client queued while offline: sales and breakdowns of lot 1
\* dated on the day of the apply calls, and a receiving
QueuedPayload(action_type) ==
    IF action_type = "receiving" THEN [quantity_kg |-> 1]
    ELSE IF action_type = "breakdown"
        THEN [input_lot_id |-> 1, input_quantity_kg |-> 1, outputs |-> <<1>>,
              losses |-> <<>>]
    ELSE [lines |-> <<Line(1, 1)>>, sold_at |-> MaxTime]

QueuedOffline ==
    {[client_txn_id |-> t, action_type |-> a, payload |-> QueuedPayload(a)] :
        t \in ClientTxnIds, a \in {"receiving", "breakdown", "sale"}}

ApplySubmit ==
    /\ SetupIdle
    /\ lots # <<>>
    /\ oq_seq < MaxQueued
    /\ \E a \in QueuedOffline : SubmitBatch("c1", <<a>>)

BeginApply(p) ==
    /\ cmd[p].pc = "idle"
    /\ result.status = "ok"
    /\ offline_queue # <<>>
    /\ LET P(r) == r.client_id = "c1" /\ r.status = "queued"
           groups == GroupRows(SelectSeq(offline_queue, P), <<>>)
       IN cmd' = [cmd EXCEPT ![p] = [IdleCommand EXCEPT
                                        !.pc = IF groups = <<>> THEN "done" ELSE "apply",
                                        !.kind = "apply",
                                        !.req = [client_id |-> "c1"],
                                        !.todo = groups]]
    /\ UNCHANGED <<dbvars, txid, now, result, sess, locks, issued, offvars, base>>

ApplyNextGroup(p) ==
    /\ cmd[p].pc = "apply"
    /\ \E b \in BOOLEAN :
        \E st \in {ApplyGroup([db |-> DB, queue |-> offline_queue,
                               conflicts |-> offline_conflicts, tx |-> txid,
                               groups |-> <<>>],
                              Head(cmd[p].todo), now, [i \in 1..3 |-> b])} :
           /\ lots' = st.db.lots
           /\ inventory_movements' = st.db.inventory_movements
           /\ lot_events' = st.db.lot_events
           /\ production_orders' = st.db.production_orders
           /\ production_inputs' = st.db.production_inputs
           /\ production_outputs' = st.db.production_outputs
           /\ breakdown_losses' = st.db.breakdown_losses
           /\ qa_checks' = st.db.qa_checks
           /\ reservations' = st.db.reservations
           /\ sales' = st.db.sales
           /\ sale_lines' = st.db.sale_lines
           /\ lot_code_counters' = st.db.lot_code_counters
           /\ offline_queue' = st.queue
           /\ offline_conflicts' = st.conflicts
           /\ txid' = st.tx
           /\ cmd' = [cmd EXCEPT ![p].todo = Tail(@),
                                 ![p].pc = IF Len(cmd[p].todo) = 1 THEN "done" ELSE "apply",
                                 ![p].status = st.groups[1].rows[1].status]
    /\ UNCHANGED <<now, result, sess, locks, issued, oq_seq, base>>

NextApply ==
    \/ ConcTick
    \/ ApplyReceiving
    \/ ConcStartAging
    \/ ConcReleaseAging
    \/ ApplySubmit
    \/ \E p \in Procs : BeginApply(p)
    \/ \E p \in Procs : ApplyNextGroup(p)

SpecApply == Init /\ [][NextApply]_vars

\* --------------------------------------------- all commands side by side
\* Every command as a request of its own session: its lot row locks, its
\* gates, the counter rows of next_lot_code, its writes and commit.  The lots
\* are set up first: lot 1 is received and broken down into lots 2 and 3,
\* which are aged and released.
CommandsReceiving ==
    /\ SetupIdle
    /\ lots = <<>>
    /\ Finish("receiving",
              create_lot_txn(DB, [quantity_kg |-> MaxQty + 1, received_at |-> now], txid + 1))

CommandsBreakdown ==
    /\ SetupIdle
    /\ Len(lots) = 1
    /\ Finish("breakdown",
              breakdown_txn(DB, [input_lot_id |-> 1, input_quantity_kg |-> MaxQty + 1,
                                 outputs |-> <<MaxQty, 1>>, losses |-> <<>>],
                            now, txid + 1, [i \in 1..3 |-> FALSE]))

RECURSIVE Orders(_)
Orders(ids) ==
    IF ids = {} THEN {<<>>}
    ELSE UNION {{<<x>> \o o : o \in Orders(ids \ {x})} : x \in ids}

BeginRequest(p, kind, req, todo) ==
    /\ cmd[p].pc = "idle"
    /\ result.status = "ok"
    /\ Len(lots) >= 3
    /\ \A id \in {2, 3} : lots[id].state \in {"released", "quarantined", "sold", "disposed"}
    /\ cmd' = [cmd EXCEPT ![p] = [IdleCommand EXCEPT
                                     !.pc = IF todo = <<>> THEN "check" ELSE "lock",
                                     !.kind = kind, !.req = req, !.todo = todo]]
    /\ UNCHANGED <<dbvars, txid, now, result, sess, locks, issued, offvars, base>>

Derived == DOMAIN lots \ {1}

BeginReceiving(p) ==
    BeginRequest(p, "receiving",
                 [body |-> [quantity_kg |-> 1, received_at |-> now]], <<>>)

BeginReservation(p) ==
    \E id \in Derived, b \in BOOLEAN :
        BeginRequest(p, "reservation",
                     [body |-> [lot_id |-> id, quantity_kg |-> 1], fp |-> [i \in 1..3 |-> b]],
                     <<>>)

\* select(Lot).where(Lot.id == req.input_lot_id).with_for_update()
BeginBreakdown(p) ==
    \E id \in Derived, b \in BOOLEAN :
        BeginRequest(p, "breakdown",
                     [body |-> [input_lot_id |-> id, input_quantity_kg |-> 1,
                                outputs |-> <<1>>, losses |-> <<>>],
                      at |-> now, fp |-> [i \in 1..3 |-> b]],
                     <<id>>)

BeginRework(p) ==
    \E id \in Derived, b \in BOOLEAN :
        BeginRequest(p, "rework",
                     [body |-> [input_lot_id |-> id, rework_quantity_kg |-> 1, losses |-> <<>>],
                      at |-> now, fp |-> [i \in 1..3 |-> b]],
                     <<id>>)

BeginQA(p) ==
    \E id \in Derived, pq \in 0..1, fq \in 0..1, b \in BOOLEAN :
        /\ pq + fq > 0
        /\ BeginRequest(p, "qa",
                        [body |-> [lot_id |-> id, pass_qty_kg |-> pq, fail_qty_kg |-> fq],
                         at |-> now, fp |-> [i \in 1..3 |-> b]],
                        <<id>>)

BeginSaleOf(p) ==
    \E lines \in {<<Line(2, 1)>>, <<Line(3, 1)>>, <<Line(3, 1), Line(2, 1)>>} :
        BeginRequest(p, "sale", [lines |-> lines, sold_at |-> now], SaleLockOrder(lines))

BeginMixOf(p) ==
    \E id \in Derived :
        BeginRequest(p, "mix",
                     [process_profile_id |-> 2, inputs |-> <<Line(id, 1)>>,
                      performed_at |-> now],
                     MixLockOrder(<<Line(id, 1)>>))

\* forward_trace returns SELECT DISTINCT derived_lot_id without ORDER BY; the
\* loop updates the lots that its read found not quarantined, one UPDATE
\* (one row lock) per lot, in the order of that list.
BeginQuarantineForward(p) ==
    \E root \in DOMAIN lots :
        \E order \in Orders({id \in forward_trace(DB, root) : lots[id].state # "quarantined"}) :
            BeginRequest(p, "quarantine_forward",
                         [lot_id |-> root, forward_ids |-> forward_trace(DB, root)], order)

\* next_lot_code: SELECT .. FOR UPDATE of the counter row
CmdCodeLock(p) ==
    /\ cmd[p].pc = "codes"
    /\ \A q \in Procs \ {p} : Head(cmd[p].todo) \notin cmd[q].held
    /\ cmd' = [cmd EXCEPT ![p].held = @ \cup {Head(cmd[p].todo)},
                          ![p].todo = Tail(@),
                          ![p].pc = IF Len(cmd[p].todo) = 1 THEN "write" ELSE "codes"]
    /\ UNCHANGED <<dbvars, txid, now, result, sess, locks, issued, offvars, base>>

\* p waits for a row that q holds
WaitsFor(p, q) ==
    /\ p # q
    /\ cmd[p].pc \in {"lock", "codes"}
    /\ Head(cmd[p].todo) \in cmd[q].held

RECURSIVE WaitReach(_, _)
WaitReach(S, n) ==
    IF n = 0 THEN S
    ELSE WaitReach(S \cup {q \in Procs : \E p \in S : WaitsFor(p, q)}, n - 1)

\* p waits for q and q, directly or through others, waits for p
InLockCycle(p) == \E q \in Procs : WaitsFor(p, q) /\ p \in WaitReach({q}, MaxProcs)

\* the deadlock detector of the database ends one transaction of the cycle
\* with an error; the request answers 500
DeadlockAbort(p) ==
    /\ InLockCycle(p)
    /\ cmd' = [cmd EXCEPT ![p].pc = "done", ![p].held = {}, ![p].todo = <<>>,
                          ![p].status = "aborted", ![p].detail = "deadlock detected"]
    /\ UNCHANGED <<dbvars, txid, now, result, sess, locks, issued, offvars, base>>

BeginAny(p) ==
    \/ BeginReceiving(p)
    \/ BeginReservation(p)
    \/ BeginBreakdown(p)
    \/ BeginRework(p)
    \/ BeginQA(p)
    \/ BeginSaleOf(p)
    \/ BeginMixOf(p)
    \/ BeginQuarantineForward(p)

CommandStep(p) ==
    CmdLock(p) \/ CmdCheck(p) \/ CmdCodeLock(p) \/ CmdCommit(p) \/ DeadlockAbort(p)

NextCommands ==
    \/ ConcTick
    \/ CommandsReceiving
    \/ CommandsBreakdown
    \/ ConcStartAging
    \/ ConcReleaseAging
    \/ \E p \in Procs : BeginReceiving(p)
    \/ \E p \in Procs : BeginReservation(p)
    \/ \E p \in Procs : BeginBreakdown(p)
    \/ \E p \in Procs : BeginRework(p)
    \/ \E p \in Procs : BeginQA(p)
    \/ \E p \in Procs : BeginSaleOf(p)
    \/ \E p \in Procs : BeginMixOf(p)
    \/ \E p \in Procs : BeginQuarantineForward(p)
    \/ \E p \in Procs : CmdLock(p)
    \/ \E p \in Procs : CmdCheck(p)
    \/ \E p \in Procs : CmdCodeLock(p)
    \/ \E p \in Procs : CmdCommit(p)
    \/ \E p \in Procs : DeadlockAbort(p)

\* every session is a task of the event loop with a connection of its own
FairCommands == Init /\ [][NextCommands]_vars /\ \A p \in Procs : WF_vars(CommandStep(p))

\* ------------------------------------------------------------- properties
OrderInputs(po) ==
    LET P(r) == r.production_order_id = po IN SumQty(SelectSeq(production_inputs, P))

OrderOutputs(po) ==
    LET P(r) == r.production_order_id = po IN SumQty(SelectSeq(production_outputs, P))

OrderLosses(po) ==
    LET P(r) == r.production_order_id = po IN SumQty(SelectSeq(breakdown_losses, P))

OrderImbalance(po) == OrderInputs(po) - OrderOutputs(po) - OrderLosses(po)

\* C1: for every production order (breakdown, mix, rework, partial QA) the
\* sum of its input quantities equals the sum of its output quantities plus
\* the sum of its loss quantities, within 0.001 kg.
C1_MassBalance ==
    \A po \in DOMAIN production_orders : Abs(OrderImbalance(po)) <= TOLERANCE

\* a rework order with a loss row is committed, and some order sits exactly
\* on the 0.001 kg boundary
C1_Witness ==
    /\ \E po \in DOMAIN production_orders :
          production_orders[po].process_type = "rework" /\ OrderLosses(po) > 0
    /\ \E po \in DOMAIN production_orders : Abs(OrderImbalance(po)) = TOLERANCE

\* C2: for every lot, on_hand_kg (IN movements minus OUT movements minus
\* breakdown_loss:* movements) is greater than or equal to 0.
C2_OnHandNonNegative ==
    \A id \in DOMAIN lots : on_hand_kg(DB, id) >= 0

\* a breakdown whose rows balance exactly and consume exactly the received
\* quantity leaves its input lot with a negative on_hand_kg
C2_Witness ==
    \E po \in DOMAIN production_orders, i \in DOMAIN production_inputs :
        /\ production_orders[po].process_type = "breakdown"
        /\ production_inputs[i].production_order_id = po
        /\ OrderImbalance(po) = 0
        /\ OrderLosses(po) > 0
        /\ production_inputs[i].quantity_kg = ReceivedQty(DB, production_inputs[i].lot_id)
        /\ on_hand_kg(DB, production_inputs[i].lot_id) < 0

\* C3: for every lot, the sum of the quantities of its reservation rows is at
\* most its on_hand_kg.
C3_ReservedWithinOnHand ==
    \A id \in DOMAIN lots : reserved_kg(DB, id) <= on_hand_kg(DB, id)

\* a lot with stock on hand carries reservations for more than that stock
C3_Witness ==
    \E id \in DOMAIN lots :
        /\ on_hand_kg(DB, id) > 0
        /\ reserved_kg(DB, id) > on_hand_kg(DB, id)

\* C4: every committed transaction that changes a lot's state, released_at,
\* aging_started_at, ready_at or expires_at has written a lot event on that
\* same lot with the transaction's txid.
C4_AuditedChange ==
    [][\A id \in DOMAIN lots :
          LifecycleChanged(lots[id], lots'[id]) =>
              \E i \in DOMAIN lot_events' :
                  lot_events'[i].lot_id = id /\ lot_events'[i].txid = txid']_vars

\* lifecycle columns were changed by a sale (state sold), by aging
\* (timestamps) and by the bulk quarantine
C4_Witness ==
    /\ \E id \in DOMAIN lots : lots[id].state = "sold"
    /\ \E id \in DOMAIN lots : lots[id].released_at # NULL

C4_WitnessBulk ==
    \E i \in DOMAIN lot_events : lot_events[i].event_type = "quarantined_bulk"

\* C5: an UPDATE that changes a lifecycle column of a lot in a transaction
\* with no event for that lot is aborted with the check-violation error and
\* leaves the lot rows as they were; an UPDATE that leaves the five columns
\* equal is not aborted.
C5_SilentUpdateAborted ==
    [][(/\ result'.op = "debug_change_state"
        /\ <<result, txid>>' # <<result, txid>>
        /\ result'.info.lot_id \in DOMAIN lots)
       => LET i == result'.info IN
          /\ (~i.with_event /\ i.new_state # lots[i.lot_id].state)
                => /\ result'.status = "aborted"
                   /\ result'.detail = "23514"
                   /\ lots' = lots
          /\ (i.new_state = lots[i.lot_id].state) => result'.status = "ok"]_vars

\* the debug endpoint was refused a silent state change
C5_WitnessAborted ==
    /\ result.op = "debug_change_state"
    /\ result.status = "aborted"
    /\ ~result.info.with_event
    /\ lots[result.info.lot_id].state # result.info.new_state

\* C9: for any two lots A and B, B is in forward_trace(A) if and only if A is
\* in backward_trace(B).
C9_TraceConverse ==
    \A a \in DOMAIN lots :
        LET fwd == forward_trace(DB, a) IN
        \A b \in DOMAIN lots : (b \in fwd) <=> (a \in backward_trace(DB, b))

\* a lot two production orders away from a received lot
C9_Witness ==
    \E a \in DOMAIN lots, b \in DOMAIN lots, c \in DOMAIN lots :
        /\ Derives(DB, a, b) /\ Derives(DB, b, c)
        /\ c \in forward_trace(DB, a)
        /\ a \in backward_trace(DB, c)

AllowedStateChange(old, new) ==
    \/ old = "received" /\ new = "aging"
    \/ old = "aging" /\ new = "released"
    \/ old \in {"received", "aging", "released"} /\ new \in {"quarantined", "disposed"}
    \/ old = "released" /\ new = "sold"

\* C10: every change of a lot's state is received->aging, aging->released,
\* non-terminal->quarantined, non-terminal->disposed or released->sold; the
\* state of a sold, disposed or quarantined lot never changes.
C10_StateMachine ==
    [][\A id \in DOMAIN lots :
          lots'[id].state # lots[id].state =>
              AllowedStateChange(lots[id].state, lots'[id].state)]_vars

\* start_aging moved a disposed lot to aging
C10_Witness ==
    /\ result.op = "start_aging"
    /\ \E id \in DOMAIN lots :
          /\ lots[id].state = "aging"
          /\ \E i \in DOMAIN lot_events :
                lot_events[i].lot_id = id /\ lot_events[i].event_type = "disposed"

\* the sequences of key k held by the open transaction of session p
HeldSeqs(p, k) == SeqsOfKey(sess[p].codes, k)

\* C6: for each (date, prefix) the sequence numbers returned by
\* next_lot_code to committed transactions are pairwise distinct and strictly
\* increasing in commit order under any interleaving, and no two committed
\* lots carry the same lot code.  Checked in the stronger form that counts
\* the numbers held by transactions still open as well.
C6_LotCodesUnique ==
    /\ \A k \in CounterKeys :
          /\ \A i \in DOMAIN issued[k], j \in DOMAIN issued[k] :
                i < j => issued[k][i] < issued[k][j]
          /\ \A p \in Procs :
                LET h == HeldSeqs(p, k) IN
                /\ \A i \in DOMAIN h, j \in DOMAIN h : i < j => h[i] < h[j]
                /\ \A i \in DOMAIN h, j \in DOMAIN issued[k] : issued[k][j] < h[i]
                /\ \A q \in Procs \ {p} :
                      \A i \in DOMAIN h, j \in DOMAIN HeldSeqs(q, k) :
                          h[i] # HeldSeqs(q, k)[j]
    /\ \A i \in DOMAIN lots, j \in DOMAIN lots :
          i # j => lots[i].lot_code # lots[j].lot_code

\* two transactions have committed codes of one key while another session,
\* holding a code of that key already, waits for the row lock
C6_Witness ==
    \E k \in CounterKeys, p \in Procs, q \in Procs :
        /\ Len(issued[k]) >= 2
        /\ Len(lots) >= 2
        /\ p # q
        /\ sess[p].pc = "select" /\ sess[p].key = k
        /\ locks[k] = q
        /\ HeldSeqs(q, k) # <<>>

\* the offline_queue rows of one (client_id, client_txn_id)
QueueRowsOf(c, t) ==
    {k \in DOMAIN offline_queue :
        offline_queue[k].client_id = c /\ offline_queue[k].client_txn_id = t}

\* C7: after a submit call, every (client_id, client_txn_id) the call named
\* has exactly one offline_queue row; a second occurrence of the pair within
\* the batch is reported duplicate; and a row the call reported queued is
\* there under the id it reported, still queued.
C7_SubmitLeavesOneRow ==
    result.op = "submit_queue" =>
        LET c == result.info.client_id
            rs == result.info.results
        IN \A i \in DOMAIN rs :
            /\ Cardinality(QueueRowsOf(c, rs[i].client_txn_id)) = 1
            /\ rs[i].status \in {"queued", "duplicate"}
            /\ (\E j \in 1..(i - 1) : rs[j].client_txn_id = rs[i].client_txn_id)
                    => rs[i].status = "duplicate"
            /\ rs[i].status = "queued" =>
                    \E k \in QueueRowsOf(c, rs[i].client_txn_id) :
                        /\ offline_queue[k].id = rs[i].offline_queue_id
                        /\ offline_queue[k].status = "queued"

\* a batch naming one client_txn_id twice was answered queued, duplicate,
\* and the table has no row for the pair
C7_Witness ==
    /\ result.op = "submit_queue"
    /\ LET c == result.info.client_id
           rs == result.info.results
       IN /\ Len(rs) = 2
          /\ rs[1].client_txn_id = rs[2].client_txn_id
          /\ rs[1].status = "queued"
          /\ rs[2].status = "duplicate"
          /\ QueueRowsOf(c, rs[1].client_txn_id) = {}

ArtifactExists(refs) ==
    IF "production_order_id" \in DOMAIN refs
        THEN refs.production_order_id \in DOMAIN production_orders
    ELSE IF "sale_id" \in DOMAIN refs THEN refs.sale_id \in 1..sales
    ELSE IF "lot_id" \in DOMAIN refs THEN refs.lot_id \in DOMAIN lots
    ELSE FALSE

QueueStatus(id) ==
    {offline_queue[k].status : k \in {x \in DOMAIN offline_queue : offline_queue[x].id = id}}

GroupApplied(g) ==
    \A i \in DOMAIN g.rows :
        /\ g.rows[i].status = "applied"
        /\ QueueStatus(g.rows[i].offline_queue_id) = {"applied"}
        /\ g.rows[i].server_refs # NoRefs
        /\ ArtifactExists(g.rows[i].server_refs)

GroupRefused(g) ==
    /\ \E st \in {"conflict", "rejected"} :
        \A i \in DOMAIN g.rows :
            /\ g.rows[i].status = st
            /\ QueueStatus(g.rows[i].offline_queue_id) = {st}
    /\ ~g.artifacts_changed

\* C8: every group processed by an apply call ends in exactly one of two
\* ways: all its rows applied, each with server_refs whose artifact exists;
\* or all its rows conflict or all rejected, and the production tables
\* (lots, movements, events, orders, sales, lot-code counters) are as they
\* were before the group.
C8_GroupAllOrNothing ==
    result.op = "apply_queue" =>
        \A n \in DOMAIN result.info.groups :
            LET g == result.info.groups[n]
            IN /\ GroupApplied(g) \/ GroupRefused(g)
               /\ ~(GroupApplied(g) /\ GroupRefused(g))

\* one apply call processed an applied group, a conflict group or a
\* rejected one
C8_Witness ==
    /\ result.op = "apply_queue"
    /\ Len(result.info.groups) = 2
    /\ GroupApplied(result.info.groups[1])
    /\ result.info.groups[1].artifacts_changed
    /\ GroupRefused(result.info.groups[2])

C8_WitnessRejected ==
    /\ result.op = "apply_queue"
    /\ \E n \in DOMAIN result.info.groups :
        /\ GroupRefused(result.info.groups[n])
        /\ result.info.groups[n].rows[1].status = "rejected"

TerminalStates == {"sold", "disposed", "quarantined"}

ConsumingOps == {"breakdown", "rework", "mix", "create_reservation", "sale"}

AgingOps == {"start_aging", "release_aging"}

\* rows appended to a table by this step that name the lot
AppendedFor(old, new, id) ==
    \E i \in (Len(old) + 1)..Len(new) : new[i].lot_id = id

\* this step left the lot's row as it was and wrote nothing that names it
UntouchedLot(id) ==
    /\ lots'[id] = lots[id]
    /\ ~AppendedFor(inventory_movements, inventory_movements', id)
    /\ ~AppendedFor(lot_events, lot_events', id)
    /\ ~AppendedFor(reservations, reservations', id)
    /\ ~AppendedFor(production_inputs, production_inputs', id)
    /\ ~AppendedFor(sale_lines, sale_lines', id)

SaleStep == result'.op = "sale" /\ (txid' # txid \/ result' # result)

SaleLotIds(lines) == {lines[i].lot_id : i \in DOMAIN lines}

\* the gates of section Sales on the state before the sale
PassesSaleGates(id, lines, sold_at) ==
    /\ id \in DOMAIN lots
    /\ lots[id].state = "released"
    /\ lots[id].ready_at # NULL
    /\ lots[id].ready_at <= sold_at
    /\ ByLotQty(lines, id) <= available_for_sale_kg(DB, id, now) + TOLERANCE

\* C12: a sale is accepted only if every lot it names is released, has
\* ready_at set and not after sold_at, and the sum of the lot's line
\* quantities is at most available_for_sale_kg + 0.001 kg; otherwise the sale
\* is rejected as a whole and no table changes.
C12_SaleOnlyThroughGates ==
    [][SaleStep =>
          \/ /\ result'.status = "ok"
             /\ \A id \in SaleLotIds(result'.info.lines) :
                    PassesSaleGates(id, result'.info.lines, result'.info.sold_at)
          \/ /\ result'.status = "rejected"
             /\ UNCHANGED dbvars]_vars

\* a sale was accepted on a lot that carries a reservation
C12_Witness ==
    /\ result.op = "sale"
    /\ result.status = "ok"
    /\ \E i \in DOMAIN reservations : reservations[i].lot_id \in SaleLotIds(result.info.lines)

\* a sale of two lots was refused because of one of them
C12_WitnessRefused ==
    /\ result.op = "sale"
    /\ result.status = "rejected"
    /\ \E id \in SaleLotIds(result.info.lines) :
        /\ id \in DOMAIN lots
        /\ PassesSaleGates(id, result.info.lines, result.info.sold_at)

\* C13: after an accepted sale, each lot of the sale is sold exactly when its
\* on-hand quantity, the net of its movements without regard to
\* reservations, is at most 0.001 kg; with more on hand it is still released.
C13_SoldIffDepleted ==
    (result.op = "sale" /\ result.status = "ok") =>
        \A id \in SaleLotIds(result.info.lines) :
            /\ lots[id].state = "sold" <=> on_hand_kg(DB, id) <= TOLERANCE
            /\ on_hand_kg(DB, id) > TOLERANCE => lots[id].state = "released"

\* a sale left stock on hand, all of it reserved, and the lot was marked sold
C13_Witness ==
    /\ result.op = "sale"
    /\ result.status = "ok"
    /\ \E id \in SaleLotIds(result.info.lines) :
        /\ lots[id].state = "sold"
        /\ on_hand_kg(DB, id) > TOLERANCE
        /\ reserved_kg(DB, id) >= on_hand_kg(DB, id) - TOLERANCE

\* the step is a create-reservation command: it committed or it answered
ReservationStep ==
    result'.op = "create_reservation" /\ (txid' # txid \/ result' # result)

\* C16: create-reservation on a lot that is not quarantined, disposed or sold
\* is accepted exactly when quantity <= on_hand - (sum of the lot's existing
\* reservations) + 0.001 kg, on_hand being the net of the lot's movements; a
\* rejected request writes no reservation and leaves the lot as it was.
C16_ReservationWithinRemaining ==
    [][ReservationStep =>
          LET id == result'.info.lot_id
              q == result'.info.quantity_kg
          IN lots[id].state \notin TerminalStates =>
                /\ result'.status = "ok"
                      <=> q <= on_hand_kg(DB, id) - reserved_kg(DB, id) + TOLERANCE
                /\ result'.status # "ok" => reservations' = reservations /\ lots' = lots]_vars

\* a request that fits the unreserved stock on hand with room to spare was
\* refused on a lot that already carries a reservation
C16_Witness ==
    /\ result.op = "create_reservation"
    /\ result.status = "rejected"
    /\ result.detail = "Insufficient reservable quantity"
    /\ LET id == result.info.lot_id
       IN /\ reserved_kg(DB, id) > 0
          /\ result.info.quantity_kg <= on_hand_kg(DB, id) - reserved_kg(DB, id)
          /\ result.info.quantity_kg - (available_kg(DB, id) - reserved_kg(DB, id)) > TOLERANCE


\* ---------------------------------------------------------------- C17
QASplitDone == result.op = "qa_partial" /\ result.status = "ok"

\* the output lots of the split's production order, by lot code prefix
QASplitLots(prefix) ==
    {production_outputs[i].output_lot_id :
        i \in {j \in DOMAIN production_outputs :
                 /\ production_outputs[j].production_order_id = Len(production_orders)
                 /\ lots[production_outputs[j].output_lot_id].lot_code[1] = prefix}}

\* C17: after a successful partial QA split the source lot is disposed and
\* the availability oracle reports 0 kg for it; the pass lot has pass_qty
\* available; the fail lot is quarantined and has fail_qty on hand.
C17_PartialSplitAvailability ==
    QASplitDone =>
        /\ lots[result.info.lot_id].state = "disposed"
        /\ available_kg(DB, result.info.lot_id) = 0
        /\ \A id \in QASplitLots("QA") : available_kg(DB, id) = result.info.pass_qty_kg
        /\ \A id \in QASplitLots("QF") :
              /\ lots[id].state = "quarantined"
              /\ on_hand_kg(DB, id) = result.info.fail_qty_kg

\* a split into a pass lot and a fail lot has been committed
C17_Witness ==
    /\ QASplitDone
    /\ result.info.pass_qty_kg > 0 /\ result.info.fail_qty_kg > 0
    /\ QASplitLots("QA") # {} /\ QASplitLots("QF") # {}
    /\ lots[result.info.lot_id].state = "disposed"


\* ---------------------------------------------------------------- C19
QuarantineStep ==
    /\ result'.op = "quarantine_forward" /\ result'.status = "ok"
    /\ txid' # txid

\* the quarantined_bulk events of a lot in a list of events
BulkEvents(events, id) ==
    {i \in DOMAIN events :
        events[i].lot_id = id /\ events[i].event_type = "quarantined_bulk"}

\* C19: quarantine_forward(R) leaves every lot of forward(R) quarantined,
\* writes exactly one quarantined_bulk event for each lot it transitions and
\* none for a lot already quarantined, reports two counts that add up to
\* |forward(R)|, and changes neither R nor any lot outside forward(R).
C19_QuarantineForwardFrame ==
    [][QuarantineStep =>
          LET R == result'.info.root_lot_id
              fwd == forward_trace(DB, R)
          IN /\ R \notin fwd
             /\ result'.info.forward_lot_ids = fwd
             /\ \A id \in fwd :
                   /\ lots'[id].state = "quarantined"
                   /\ Cardinality(BulkEvents(lot_events', id))
                         = Cardinality(BulkEvents(lot_events, id))
                             + (IF lots[id].state = "quarantined" THEN 0 ELSE 1)
             /\ result'.info.quarantined_count
                   = Cardinality({id \in fwd : lots[id].state # "quarantined"})
             /\ result'.info.quarantined_count + result'.info.already_quarantined_count
                   = Cardinality(fwd)
             /\ Len(lot_events') = Len(lot_events) + result'.info.quarantined_count
             /\ DOMAIN lots' = DOMAIN lots
             /\ \A id \in DOMAIN lots \ fwd : lots'[id] = lots[id]]_vars

\* a recall over descendants of which one was quarantined before and one is
\* quarantined by the recall
C19_Witness ==
    /\ result.op = "quarantine_forward" /\ result.status = "ok"
    /\ result.info.quarantined_count >= 1
    /\ result.info.already_quarantined_count >= 1
    /\ lots[result.info.root_lot_id].state # "quarantined"


\* ---------------------------------------------------------------- C18
\* a submit call whose batch was a receiving then a sale under one
\* client_txn_id that the client had not queued before
SubmittedPair ==
    /\ result.op = "submit_queue"
    /\ result.info.action_types = <<"receiving", "sale">>
    /\ result.info.results[1].client_txn_id = result.info.results[2].client_txn_id
    /\ result.info.results[1].status = "queued"

\* C18: a batch of a receiving and a sale sharing one client_txn_id is
\* stored by submit as two queued rows (which apply then treats as one
\* group that ends in conflict as a whole).
C18_PairStoredAsTwoRows ==
    SubmittedPair =>
        LET rows == QueueRowsOf(result.info.client_id,
                                result.info.results[1].client_txn_id)
        IN /\ Cardinality(rows) = 2
           /\ \A k \in rows : offline_queue[k].status = "queued"
           /\ {offline_queue[k].action_type : k \in rows} = {"receiving", "sale"}

\* the pair was submitted and answered queued, duplicate; no row of it is
\* in the table
C18_Witness ==
    /\ SubmittedPair
    /\ result.info.results[2].status = "duplicate"
    /\ QueueRowsOf(result.info.client_id, result.info.results[1].client_txn_id) = {}


\* ---------------------------------------------------------------- C20
\* an apply call that processed exactly one queued action
ApplySingleStep ==
    /\ result'.op = "apply_queue"
    /\ txid' # txid
    /\ Len(result'.info.groups) = 1
    /\ Len(result'.info.groups[1].rows) = 1

QueuedRow(id) == offline_queue[CHOOSE k \in DOMAIN offline_queue : offline_queue[k].id = id]

OnlineAccepts(oq, fp) ==
    OnlineCommand(DB, oq.action_type, oq.payload, now, txid + 1, fp).status = "ok"

\* C20: for a queued receiving, breakdown or sale action, if the online
\* command would accept the payload in the current store state then apply
\* marks the row applied with server_refs and leaves the store as the
\* online command would; if the online command would reject it, the row is
\* not marked applied.
C20_ApplyMatchesOnline ==
    [][ApplySingleStep =>
          LET row == result'.info.groups[1].rows[1]
              oq == QueuedRow(row.offline_queue_id)
          IN /\ (\A fp \in FP3 : OnlineAccepts(oq, fp)) =>
                    /\ row.status = "applied"
                    /\ row.server_refs # NoRefs
                    /\ \E fp \in FP3 :
                          DB' = OnlineCommand(DB, oq.action_type, oq.payload, now,
                                              txid + 1, fp).db
             /\ (\A fp \in FP3 : ~OnlineAccepts(oq, fp)) => row.status # "applied"]_vars

\* a queued receiving that the online command accepts ended rejected
C20_Witness ==
    /\ result.op = "apply_queue"
    /\ Len(result.info.groups) = 1
    /\ Len(result.info.groups[1].rows) = 1
    /\ result.info.groups[1].rows[1].status = "rejected"
    /\ \E k \in DOMAIN offline_queue :
          /\ offline_queue[k].id = result.info.groups[1].rows[1].offline_queue_id
          /\ offline_queue[k].action_type = "receiving"
          /\ create_lot_txn(DB, [quantity_kg |-> offline_queue[k].payload.quantity_kg,
                                  received_at |-> now], txid + 1).status = "ok"

\* the same statement for breakdown and sale actions only
C20_BreakdownSaleMatchOnline ==
    [][(ApplySingleStep
          /\ QueuedRow(result'.info.groups[1].rows[1].offline_queue_id).action_type
                # "receiving") =>
          LET row == result'.info.groups[1].rows[1]
              oq == QueuedRow(row.offline_queue_id)
          IN /\ (\A fp \in FP3 : OnlineAccepts(oq, fp)) =>
                    /\ row.status = "applied"
                    /\ row.server_refs # NoRefs
                    /\ \E fp \in FP3 :
                          DB' = OnlineCommand(DB, oq.action_type, oq.payload, now,
                                              txid + 1, fp).db
             /\ (\A fp \in FP3 : ~OnlineAccepts(oq, fp)) => row.status # "applied"]_vars


\* ---------------------------------------------------------------- C14
AllDone == \A p \in Procs : cmd[p].pc = "done"

\* what a lot holds: on hand, reserved, state
LotView(d) ==
    [id \in DOMAIN d.lots |->
        [on_hand |-> on_hand_kg(d, id), reserved |-> reserved_kg(d, id),
         state |-> d.lots[id].state]]

\* the requests one after the other, each as one transaction, in the order
\* given; fps are the float outcomes of their gates
RECURSIVE RunSerial(_, _, _, _)
RunSerial(order, d, fps, status) ==
    IF order = <<>> THEN [view |-> LotView(d), status |-> status]
    ELSE LET p == Head(order)
             r == CmdOutcome(cmd[p], d, now, txid + 1, fps[p])
         IN RunSerial(Tail(order), r.db, fps, [status EXCEPT ![p] = r.status])

SerialOrders == {o \in [1..Cardinality(Procs) -> Procs] : \A i, j \in DOMAIN o : o[i] = o[j] => i = j}

SerialOutcomes ==
    {RunSerial(o, base, fps, [p \in Procs |-> "none"]) :
        o \in SerialOrders, fps \in [Procs -> BOOLEAN]}

C14_SalesSerialOutcome ==
    (AllDone /\ \A p \in Procs : cmd[p].kind = "sale") =>
        [view |-> LotView(DB), status |-> [p \in Procs |-> cmd[p].status]] \in SerialOutcomes


\* ---------------------------------------------------------------- C15
\* a lock step of session p that takes a row below one it already holds
LockOutOfOrder(p) ==
    /\ cmd[p].pc = "lock"
    /\ cmd'[p].held # cmd[p].held
    /\ \E t \in cmd[p].held, u \in cmd'[p].held \ cmd[p].held : u <= t

\* C15: concurrent sale requests over overlapping lots never deadlock: each
\* takes its lot-row locks in ascending lot id order, and under fair
\* scheduling every sale that began ends committed or rejected.
C15_SalesNeverDeadlock ==
    /\ [][\A p \in Procs : ~LockOutOfOrder(p)]_vars
    /\ \A p \in Procs :
          (cmd[p].pc # "idle") ~> (cmd[p].pc = "done" /\ cmd[p].status \in {"ok", "rejected"})

\* two sales naming the same two lots in opposite orders have both ended,
\* the first of them committed
C15_Witness ==
    /\ AllDone
    /\ \E p, q \in Procs :
          /\ cmd[p].kind = "sale" /\ cmd[q].kind = "sale"
          /\ cmd[p].req.lines = <<Line(1, 1), Line(2, 1)>>
          /\ cmd[q].req.lines = <<Line(2, 1), Line(1, 1)>>
          /\ cmd[p].status = "ok" /\ cmd[q].status \in {"ok", "rejected"}


\* ---------------------------------------------------------------- C21
\* the conflict signals as the specification lists them
ListedSignals ==
    {"insufficient available", "not released", "not ready", "quarantined",
     "Weight mismatch", "must consume full available", "Invalid", "already used"}

ConflictsOf(id) == {k \in DOMAIN offline_conflicts : offline_conflicts[k].offline_queue_id = id}

FailedGroups ==
    {n \in DOMAIN result.info.groups : result.info.groups[n].rows[1].status # "applied"}

\* C21: a group with a failed action is marked conflict when the error
\* message contains one of the listed conflict signals and rejected
\* otherwise; every row of a conflict group has exactly one OfflineConflict
\* and the rows of a rejected group have none.
C21_ConflictBySignal ==
    result.op = "apply_queue" =>
        \A n \in FailedGroups :
            LET g == result.info.groups[n]
                st == IF SignalsIn(g.rows[1].reason) \cap ListedSignals # {}
                      THEN "conflict" ELSE "rejected"
            IN \A i \in DOMAIN g.rows :
                  /\ g.rows[i].status = st
                  /\ QueueStatus(g.rows[i].offline_queue_id) = {st}
                  /\ Cardinality(ConflictsOf(g.rows[i].offline_queue_id))
                        = IF st = "conflict" THEN 1 ELSE 0

\* one apply call ended a group in conflict on the signal "must consume full
\* available" and another group rejected on a message without a signal
C21_Witness ==
    /\ result.op = "apply_queue"
    /\ \E n, m \in FailedGroups :
          /\ result.info.groups[n].rows[1].status = "conflict"
          /\ result.info.groups[n].rows[1].reason
                = "Breakdown must consume full available quantity"
          /\ result.info.groups[m].rows[1].status = "rejected"


\* ---------------------------------------------------------------- C22
\* applying the action raises an error that is not an HTTPException: the
\* AttributeError of the receiving call, or a database error in a handler
RaisesUnexpected(oq) ==
    \/ oq.action_type = "receiving"
    \/ \E fp \in FP3 :
          OnlineCommand(DB, oq.action_type, oq.payload, now, txid + 1, fp).status = "aborted"

\* C22: when applying an action raises an unexpected runtime error, the
\* group's writes are rolled back, its rows are marked conflict, and each
\* row gets an OfflineConflict of type txn_exception.
C22_UnexpectedErrorIsConflict ==
    [][(ApplySingleStep
          /\ RaisesUnexpected(QueuedRow(result'.info.groups[1].rows[1].offline_queue_id))) =>
          LET id == result'.info.groups[1].rows[1].offline_queue_id
          IN /\ result'.info.groups[1].rows[1].status = "conflict"
             /\ \E k \in DOMAIN offline_conflicts' :
                   /\ offline_conflicts'[k].offline_queue_id = id
                   /\ offline_conflicts'[k].conflict_type = "txn_exception"
             /\ UNCHANGED dbvars]_vars

\* a queued receiving raised the AttributeError; its row is rejected and has
\* no OfflineConflict
C22_Witness ==
    /\ result.op = "apply_queue"
    /\ \E n \in DOMAIN result.info.groups :
          LET row == result.info.groups[n].rows[1]
          IN /\ row.reason = "object has no attribute 'execute'"
             /\ row.status = "rejected"
             /\ QueueStatus(row.offline_queue_id) = {"rejected"}
             /\ ConflictsOf(row.offline_queue_id) = {}


\* ---------------------------------------------------------------- C23
QueueMoves ==
    {<<"queued", "applied">>, <<"queued", "conflict">>, <<"queued", "rejected">>,
     <<"conflict", "rejected">>}

ResolveStep == result'.op = "resolve_conflict" /\ result' # result

\* C23: the status of an offline_queue row only moves queued -> applied,
\* queued -> conflict, queued -> rejected, or conflict -> rejected, the last
\* only through resolve; a row that has left queued is never applied later;
\* and resolve on a row that is not in conflict fails and changes neither
\* the row nor its conflicts.
C23_QueueStatusMoves ==
    [][/\ \A k \in DOMAIN offline_queue :
             /\ k \in DOMAIN offline_queue'
             /\ offline_queue'[k].id = offline_queue[k].id
             /\ \/ offline_queue'[k].status = offline_queue[k].status
                \/ <<offline_queue[k].status, offline_queue'[k].status>> \in QueueMoves
             /\ (offline_queue[k].status = "conflict" /\ offline_queue'[k].status = "rejected")
                   => ResolveStep
             /\ (offline_queue[k].status = "queued"
                    /\ offline_queue'[k].status # "queued") => result'.op = "apply_queue"
       /\ ResolveStep =>
             \A k \in DOMAIN offline_queue :
                (offline_queue[k].id = result'.info.offline_queue_id
                   /\ offline_queue[k].status # "conflict") =>
                     /\ result'.status = "rejected"
                     /\ offline_queue' = offline_queue
                     /\ offline_conflicts' = offline_conflicts]_vars

\* a conflict row has been resolved to rejected, and a resolve of a row that
\* is not in conflict has failed
C23_Witness ==
    /\ result.op = "resolve_conflict" /\ result.status = "ok"
    /\ \E k \in DOMAIN offline_queue :
          /\ offline_queue[k].id = result.info.offline_queue_id
          /\ offline_queue[k].status = "rejected"
          /\ \E c \in ConflictsOf(offline_queue[k].id) :
                offline_conflicts[c].resolution = "rejected"

C23_WitnessRefused ==
    /\ result.op = "resolve_conflict" /\ result.status = "rejected"
    /\ result.detail = "Only conflict items can be resolved"
    /\ \E k \in DOMAIN offline_queue :
          /\ offline_queue[k].id = result.info.offline_queue_id
          /\ offline_queue[k].status = "applied"


\* ---------------------------------------------------------------- C24
\* C24: available_for_sale_kg of a lot is its available_kg when the lot is
\* released and its ready_at is set and not after now, and 0 in every other
\* case: another state, ready_at in the future, or ready_at not set.
C24_AvailableForSale ==
    \A id \in DOMAIN lots :
        available_for_sale_kg(DB, id, now)
            = IF /\ lots[id].state = "released"
                 /\ lots[id].ready_at # NULL
                 /\ lots[id].ready_at <= now
              THEN available_kg(DB, id)
              ELSE 0

\* a released lot without ready_at that holds stock
C24_Witness ==
    \E id \in DOMAIN lots :
        /\ lots[id].state = "released"
        /\ lots[id].ready_at = NULL
        /\ available_kg(DB, id) > 0
        /\ available_for_sale_kg(DB, id, now) = available_kg(DB, id)

\* ------------------------------------------------------------------ C25
\* the gates of breakdown_txn that come before the weight comparison
BeforeWeightGate ==
    {"Invalid input_lot_id", "Cannot breakdown a quarantined lot",
     "Lot is not eligible for breakdown", "Input weight cannot exceed received weight",
     "One or more loss_type is invalid or inactive"}

\* a breakdown request whose outputs plus losses differ from the input
\* quantity by exactly 0.001 kg has just been answered
BreakdownOffByTolerance ==
    /\ result.op = "breakdown"
    /\ Abs(SumSeq(result.info.outputs) + SumQty(result.info.losses)
            - result.info.input_quantity_kg) = TOLERANCE

\* C25: a breakdown whose outputs plus losses differ from input_quantity_kg by
\* exactly 0.001 kg is rejected, with "Weight mismatch" unless an earlier gate
\* already refused it, and so writes nothing.
C25_OffByToleranceRejected ==
    BreakdownOffByTolerance =>
        /\ result.status = "rejected"
        /\ result.detail \in BeforeWeightGate \cup {"Weight mismatch"}

\* such a breakdown was committed: the input lot is disposed and the order
\* recorded outputs and losses 0.001 kg short of its input
C25_Witness ==
    /\ BreakdownOffByTolerance
    /\ result.status = "ok"
    /\ lots[result.info.input_lot_id].state = "disposed"
    /\ production_orders # <<>>

\* ------------------------------------------------------------------ C26
\* a start-aging request is answered in this step
StartAgingStep == result'.op = "start_aging" /\ now' = now

\* C26: start-aging moves a lot to aging only when the lot is received and the
\* profile has default_aging_days; any other request is rejected, adds no
\* event and leaves the lot's state, aging_started_at and ready_at as they were.
C26_StartAgingOnlyFromReceived ==
    [][StartAgingStep =>
          LET id == result'.info.lot_id
              profile == ProcessProfile(result'.info.process_profile_id)
          IN IF lots[id].state = "received" /\ profile.default_aging_days # NULL
             THEN result'.status = "ok" /\ lots'[id].state = "aging"
             ELSE /\ result'.status = "rejected"
                  /\ lot_events' = lot_events
                  /\ lots'[id] = lots[id]]_vars

\* start-aging was accepted on a lot that had already been released from aging
C26_Witness ==
    /\ result.op = "start_aging"
    /\ result.status = "ok"
    /\ lots[result.info.lot_id].state = "aging"
    /\ lots[result.info.lot_id].released_at # NULL

\* ------------------------------------------------------------------ C27
FullConsumption == {"breakdown", "rework", "qa_split"}

\* the production_inputs rows that consume the lot in full
ConsumingInputs(id) ==
    {i \in DOMAIN production_inputs :
        /\ production_inputs[i].lot_id = id
        /\ production_orders[production_inputs[i].production_order_id].process_type
              \in FullConsumption}

\* C27: a lot is the input of at most one full-consumption production order
\* (breakdown, rework or qa_split).
C27_ConsumedAtMostOnce ==
    \A id \in DOMAIN lots : Cardinality(ConsumingInputs(id)) <= 1

\* a partial QA was accepted on a lot that a breakdown had already consumed
C27_Witness ==
    /\ result.op = "qa_partial"
    /\ result.status = "ok"
    /\ \E i, j \in ConsumingInputs(result.info.lot_id) :
          /\ i < j
          /\ production_orders[production_inputs[i].production_order_id].process_type
                = "breakdown"
          /\ production_orders[production_inputs[j].production_order_id].process_type
                = "qa_split"

\* ------------------------------------------------------------------ C28
\* the output lots of order po whose lot code starts with the prefix
OrderLots(d, po, prefix) ==
    {d.production_outputs[i].output_lot_id :
        i \in {j \in DOMAIN d.production_outputs :
                 /\ d.production_outputs[j].production_order_id = po
                 /\ d.lots[d.production_outputs[j].output_lot_id].lot_code[1] = prefix}}

\* a rework request is committed in this step
ReworkCommitted ==
    result'.op = "rework" /\ result'.status = "ok" /\ now' = now

\* C28: after a successful rework of a lot with available quantity A, rework
\* quantity q and total losses l, available_kg is 0 for the input lot, q - l
\* for the RW lot and A - q for the RM lot, which exists only when A - q is
\* above 0.001 kg, and the input lot is disposed.
C28_ReworkAvailability ==
    [][ReworkCommitted =>
          LET id == result'.info.input_lot_id
              A == available_kg(DB, id)
              q == result'.info.rework_quantity_kg
              l == SumQty(result'.info.losses)
              po == Len(production_orders')
          IN /\ available_kg(DB', id) = 0
             /\ lots'[id].state = "disposed"
             /\ OrderLots(DB', po, "RW") # {}
             /\ \A o \in OrderLots(DB', po, "RW") : available_kg(DB', o) = q - l
             /\ \A o \in OrderLots(DB', po, "RM") :
                   A - q >= TOLERANCE /\ available_kg(DB', o) = A - q
             /\ A - q > TOLERANCE => OrderLots(DB', po, "RM") # {}]_vars

\* a rework with a loss was committed: an RW lot exists and the input lot is
\* disposed
C28_Witness ==
    /\ result.op = "rework"
    /\ result.status = "ok"
    /\ result.info.losses # <<>>
    /\ lots[result.info.input_lot_id].state = "disposed"
    /\ OrderLots(DB, Len(production_orders), "RW") # {}

\* ------------------------------------------------------------------ C29
\* a rework request is answered in this step
ReworkStep == result'.op = "rework" /\ now' = now

\* C29: a rework on a lot that is not quarantined, disposed or sold, with
\* 0 < rework_qty <= available_kg and losses summing to at most rework_qty
\* (equality included), commits and records an RW output of rework_qty minus
\* the losses; a rework with rework_qty more than 0.001 kg above available_kg,
\* or losses more than 0.001 kg above rework_qty, is rejected and writes
\* nothing.
C29_ReworkAcceptance ==
    [][ReworkStep =>
          LET id == result'.info.input_lot_id
              avail == available_kg(DB, id)
              q == result'.info.rework_quantity_kg
              l == SumQty(result'.info.losses)
              po == Len(production_orders')
          IN /\ (/\ lots[id].state \notin {"quarantined", "disposed", "sold"}
                 /\ 0 < q /\ q <= avail /\ l <= q)
                => /\ result'.status = "ok"
                   /\ \E o \in OrderLots(DB', po, "RW") :
                         \E i \in DOMAIN production_outputs' :
                            /\ production_outputs'[i].output_lot_id = o
                            /\ production_outputs'[i].quantity_kg = q - l
             /\ (q > avail + TOLERANCE \/ l > q + TOLERANCE)
                => /\ result'.status = "rejected"
                   /\ UNCHANGED dbvars]_vars

\* a rework whose losses equal the rework quantity was not committed
C29_Witness ==
    /\ result.op = "rework"
    /\ result.status = "aborted"
    /\ SumQty(result.info.losses) = result.info.rework_quantity_kg
    /\ result.info.rework_quantity_kg <= available_kg(DB, result.info.input_lot_id)
    /\ lots[result.info.input_lot_id].state \notin {"quarantined", "disposed", "sold"}

\* ------------------------------------------------------------------ C30
\* a breakdown request is answered in this step
BreakdownStep == result'.op = "breakdown" /\ now' = now

\* the k-th output lot of the breakdown order po
BreakdownOutputLot(d, po, k) ==
    LET P(o) == o.production_order_id = po
    IN SelectSeq(d.production_outputs, P)[k].output_lot_id

\* C30: a breakdown is accepted only if input_quantity_kg is within 0.001 kg
\* of the input lot's available_kg, is not above the lot's received total and
\* names only active loss types; otherwise it is rejected, nothing is written
\* and the input lot keeps its state.  When accepted, the input lot ends
\* disposed with 0 kg available and every output lot has its declared
\* quantity on hand.
C30_BreakdownAcceptance ==
    [][BreakdownStep =>
          LET req == result'.info
              id == req.input_lot_id
              q == req.input_quantity_kg
              po == Len(production_orders')
          IN IF result'.status = "ok"
             THEN /\ Abs(q - available_kg(DB, id)) <= TOLERANCE
                  /\ q - ReceivedQty(DB, id) <= TOLERANCE
                  /\ \A i \in DOMAIN req.losses : LossTypeActive(req.losses[i].loss_type)
                  /\ lots'[id].state = "disposed"
                  /\ available_kg(DB', id) = 0
                  /\ \A k \in DOMAIN req.outputs :
                        on_hand_kg(DB', BreakdownOutputLot(DB', po, k)) = req.outputs[k]
             ELSE /\ result'.status = "rejected"
                  /\ UNCHANGED dbvars]_vars

\* a breakdown was committed and its disposed input lot still has stock
C30_Witness ==
    /\ result.op = "breakdown"
    /\ result.status = "ok"
    /\ lots[result.info.input_lot_id].state = "disposed"
    /\ available_kg(DB, result.info.input_lot_id) > 0

\* ------------------------------------------------------------------ C31
\* a mix request is answered in this step
MixStep == result'.op = "mix" /\ now' = now

MixInputIds(lines) == {lines[i].lot_id : i \in DOMAIN lines}

RECURSIVE SumOver(_, _, _)
\* on-hand quantity taken from the lots of ids between the tables d and e
SumOver(ids, d, e) ==
    IF ids = {} THEN 0
    ELSE LET id == CHOOSE x \in ids : TRUE
         IN (on_hand_kg(d, id) - on_hand_kg(e, id)) + SumOver(ids \ {id}, d, e)

ReleaseStep == result'.op = "release_aging" /\ now' = now

\* the events of the lot with the given type
EventsOf(events, id, type) ==
    {i \in DOMAIN events : events[i].lot_id = id /\ events[i].event_type = type}

\* C32: release-aging succeeds only for a lot in state aging whose ready_at
\* is set and not after the release time; it then sets state released and
\* released_at and writes one released event.  Otherwise it is rejected, no
\* event is written and the lot is unchanged.
C32_ReleaseAging ==
    [][ReleaseStep =>
          LET id == result'.info.lot_id
              t == result'.info.released_at
          IN IF result'.status = "ok"
             THEN /\ lots[id].state = "aging"
                  /\ lots[id].ready_at # NULL
                  /\ lots[id].ready_at <= t
                  /\ lots'[id] = [lots[id] EXCEPT !.state = "released", !.released_at = t]
                  /\ Len(lot_events') = Len(lot_events) + 1
                  /\ Len(lot_events') \in EventsOf(lot_events', id, "released")
             ELSE /\ result'.status = "rejected"
                  /\ lot_events' = lot_events
                  /\ lots' = lots
                  /\ UNCHANGED dbvars]_vars

\* an aging lot was released at its ready_at
C32_Witness ==
    /\ result.op = "release_aging"
    /\ result.status = "ok"
    /\ lots[result.info.lot_id].state = "released"
    /\ lots[result.info.lot_id].released_at = result.info.released_at
    /\ lots[result.info.lot_id].ready_at = result.info.released_at
    /\ EventsOf(lot_events, result.info.lot_id, "released") # {}

\* a release before ready_at was refused
C32_WitnessRefused ==
    /\ result.op = "release_aging"
    /\ result.status = "rejected"
    /\ result.detail = "Lot is not ready to release yet"
    /\ lots[result.info.lot_id].state = "aging"

\* ------------------------------------------------------------------ C33
\* the commands that change a lot's state
StateChangingOps ==
    {"start_aging", "release_aging", "breakdown", "rework", "qa_full", "qa_partial",
     "sale", "quarantine_forward"}

SaleRow(id, q) ==
    [action_type |-> "sale", payload |-> [lines |-> <<Line(id, q)>>, sold_at |-> now]]

BreakdownRow(id, q) ==
    [action_type |-> "breakdown",
     payload |-> [input_lot_id |-> id, input_quantity_kg |-> q,
                  outputs |-> <<q>>, losses |-> <<>>]]

\* queued groups that empty a lot holding a: a sale, a breakdown, and a sale
\* followed by a breakdown in one group
SavepointGroups(id, a) ==
    IF a <= 0 THEN {}
    ELSE {<<SaleRow(id, a)>>, <<BreakdownRow(id, a)>>}
            \cup (IF a >= 2 THEN {<<SaleRow(id, 1), BreakdownRow(id, a - 1)>>} ELSE {})

NoRounding == [i \in 1..3 |-> FALSE]

\* the run of the group inside a savepoint of the next transaction
SavepointRun(g) == ApplyActions(DB, g, now, txid + 1, NoRounding, <<>>)

\* C33: no command that changes a lot's state is aborted by the audit
\* trigger: when its UPDATE is issued an event on the lot is already written
\* in the same transaction.  The same holds for a sale or breakdown run
\* inside an offline apply savepoint on the tables reached.
C33_NeverAbortedByAudit ==
    /\ result.op \in StateChangingOps
          => ~(result.status = "aborted" /\ result.detail = "23514")
    /\ \A id \in DOMAIN lots :
          \A g \in SavepointGroups(id, available_kg(DB, id)) :
              \A run \in {SavepointRun(g)} : run.failed => run.reason # "23514"

\* a sale emptied a lot and marked it sold in the transaction that wrote its
\* sold event, and a breakdown in a savepoint would dispose another lot
C33_Witness ==
    /\ result.op = "sale"
    /\ result.status = "ok"
    /\ \E id \in DOMAIN lots :
          /\ lots[id].state = "sold"
          /\ \E i \in DOMAIN lot_events :
                /\ lot_events[i].lot_id = id
                /\ lot_events[i].event_type = "sold"
                /\ lot_events[i].txid = txid
    /\ \E id \in DOMAIN lots :
          /\ available_kg(DB, id) > 0
          /\ ~SavepointRun(<<BreakdownRow(id, available_kg(DB, id))>>).failed

\* ------------------------------------------------------------------ C34
\* the recursive queries come to an empty working table for the lot
TraceTerminates(d, id) ==
    /\ ForwardWorking(d, {id}, Len(d.lots)) = {}
    /\ BackwardWorking(d, {id}, Len(d.lots)) = {}

Acyclic(d) ==
    \A a \in DOMAIN d.lots :
        /\ a \notin forward_trace(d, a)
        /\ a \notin backward_trace(d, a)
        /\ TraceTerminates(d, a)

\* C34: the production graph stays acyclic.  Every production_outputs row
\* written by a step lists a lot created in that step, every
\* production_inputs row a lot that existed before it, no lot is in its own
\* forward or backward closure, and the recursive trace queries terminate.
C34_ProductionGraphAcyclic ==
    [][/\ SubSeq(production_outputs', 1, Len(production_outputs)) = production_outputs
       /\ SubSeq(production_inputs', 1, Len(production_inputs)) = production_inputs
       /\ <<production_inputs, production_outputs>>' # <<production_inputs, production_outputs>>
          => /\ \A k \in (Len(production_outputs) + 1)..Len(production_outputs') :
                   /\ production_outputs'[k].output_lot_id > Len(lots)
                   /\ production_outputs'[k].output_lot_id <= Len(lots')
                   /\ production_outputs'[k].production_order_id > Len(production_orders)
             /\ \A k \in (Len(production_inputs) + 1)..Len(production_inputs') :
                   /\ production_inputs'[k].lot_id <= Len(lots)
                   /\ production_inputs'[k].production_order_id > Len(production_orders)
             /\ Acyclic(DB')]_vars

\* a chain of two production orders: a lot derived from a derived lot
C34_Witness ==
    \E a, b, c \in DOMAIN lots :
        /\ Derives(DB, a, b) /\ Derives(DB, b, c)
        /\ c \in forward_trace(DB, a)
        /\ a \in backward_trace(DB, c)
        /\ TraceTerminates(DB, b)

\* ------------------------------------------------------------------ C35
MovedQty(type) ==
    LET P(m) == m.move_type = type IN SumQty(SelectSeq(inventory_movements, P))

RECURSIVE OnHandTotal(_)
\* on_hand_kg summed over the lots 1..n
OnHandTotal(n) == IF n = 0 THEN 0 ELSE on_hand_kg(DB, n) + OnHandTotal(n - 1)

\* what is on hand, sold or recorded as lost, less what was received
MassImbalance ==
    OnHandTotal(Len(lots)) + MovedQty("sale") + SumQty(breakdown_losses)
        - MovedQty("receiving")

\* C35: mass is conserved across lots: on-hand summed over all lots plus the
\* sale movements plus the recorded BreakdownLoss quantities equals the
\* receiving movements, within 0.001 kg per production order.
C35_MassConserved ==
    Abs(MassImbalance) <= TOLERANCE * Len(production_orders)

\* a breakdown of a whole received lot with a loss was committed, outputs
\* plus losses equal to the input, and the books are short by the loss
C35_Witness ==
    /\ result.op = "breakdown"
    /\ result.status = "ok"
    /\ result.info.losses # <<>>
    /\ result.info.input_quantity_kg = ReceivedQty(DB, result.info.input_lot_id)
    /\ SumSeq(result.info.outputs) + SumQty(result.info.losses)
          = result.info.input_quantity_kg
    /\ Len(production_orders) = 1
    /\ MassImbalance = 0 - SumQty(result.info.losses)

\* ------------------------------------------------------------------ C36
\* the lot has been quarantined at some time: it carries the event of a
\* failed QA check or of quarantine-forward, or it was created as a QF lot
WasQuarantined(id) ==
    \/ EventsOf(lot_events, id, "quarantined") # {}
    \/ EventsOf(lot_events, id, "quarantined_bulk") # {}
    \/ lots[id].lot_code[1] = "QF"

SaleMovementsOf(moves, id) ==
    {i \in DOMAIN moves : moves[i].lot_id = id /\ moves[i].move_type = "sale"}

\* C36: once a lot has been quarantined its state never becomes received,
\* aging or released again and no sale movement is recorded for it.
C36_QuarantineIsFinal ==
    [][\A id \in DOMAIN lots :
          WasQuarantined(id) =>
              /\ lots'[id].state \notin {"received", "aging", "released"}
              /\ SaleMovementsOf(inventory_movements', id)
                    = SaleMovementsOf(inventory_movements, id)]_vars

\* a lot quarantined by a failed QA check was split, disposed and then put
\* into aging by start-aging, without the debug endpoint
C36_Witness ==
    /\ result.op = "start_aging"
    /\ result.status = "ok"
    /\ lots[result.info.lot_id].state = "aging"
    /\ EventsOf(lot_events, result.info.lot_id, "quarantined") # {}
    /\ EventsOf(lot_events, result.info.lot_id, "state") = {}

\* ------------------------------------------------------------------ C37
\* the results of the submit just answered that are reported queued
ReportedQueued ==
    {i \in DOMAIN result.info.results : result.info.results[i].status = "queued"}

RowQueued(id) ==
    \E k \in DOMAIN offline_queue :
        offline_queue[k].id = id /\ offline_queue[k].status = "queued"

\* C37: when submit returns, every action it reports as queued with an
\* offline_queue_id has an OfflineQueue row with that id and status queued,
\* also when another action of the batch is reported duplicate.
C37_ReportedQueuedIsStored ==
    result.op = "submit_queue" =>
        \A i \in ReportedQueued : RowQueued(result.info.results[i].offline_queue_id)

\* a batch was answered queued, duplicate and the row reported queued is
\* not in the table
C37_Witness ==
    /\ result.op = "submit_queue"
    /\ Len(result.info.results) = 2
    /\ result.info.results[1].status = "queued"
    /\ result.info.results[2].status = "duplicate"
    /\ result.info.results[1].client_txn_id # result.info.results[2].client_txn_id
    /\ ~RowQueued(result.info.results[1].offline_queue_id)

\* ------------------------------------------------------------------ C38
QueueStatusOf(id) ==
    offline_queue[CHOOSE k \in DOMAIN offline_queue : offline_queue[k].id = id].status

\* call p commits a group in this step
ApplyStepOf(p) == cmd[p].pc = "apply" /\ cmd'[p] # cmd[p]

\* C38: under two concurrent apply calls of one client each queued row is
\* applied at most once: a call that comes to a group whose rows another call
\* has already settled creates no artifact and writes no status.
C38_AppliedAtMostOnce ==
    [][\A p \in Procs :
          (/\ ApplyStepOf(p)
           /\ \E i \in DOMAIN Head(cmd[p].todo) :
                 QueueStatusOf(Head(cmd[p].todo)[i].id) # "queued")
          => UNCHANGED <<dbvars, offline_queue, offline_conflicts>>]_vars

\* both calls applied the one queued sale: two sales for one queue row
C38_Witness ==
    /\ \A p \in Procs : cmd[p].pc = "done" /\ cmd[p].kind = "apply"
                            /\ cmd[p].status = "applied"
    /\ Len(offline_queue) = 1
    /\ offline_queue[1].action_type = "sale"
    /\ offline_queue[1].status = "applied"
    /\ sales = 2

\* C39: no interleaving of concurrently running commands reaches a state in
\* which transactions wait in a cycle on each other's lot rows or lot-code
\* counter rows.
C39_NoLockCycle == \A p \in Procs : ~InLockCycle(p)

\* a sale holding lot 2 waits for lot 3 while a quarantine-forward holding
\* lot 3 waits for lot 2
C39_Witness ==
    \E p \in Procs, q \in Procs :
        /\ cmd[p].kind = "sale"
        /\ cmd[q].kind = "quarantine_forward"
        /\ cmd[p].held = {2}
        /\ cmd[q].held = {3}
        /\ WaitsFor(p, q)
        /\ WaitsFor(q, p)

=============================================================================
